---- MODULE Spec2Model ----
(***************************************************************************)
(* Model of the update orchestration engine of devem-tech/up-to-date:      *)
(* the scheduler (Run), one cycle (runOnce), the decision engine           *)
(* (updateContainerIfNeeded), the two update strategies (recreateContainer *)
(* and rollingUpdateContainer with waitForHealthyIfConfigured) and the     *)
(* image cleanup (cleanupOldImageIfUnused), running against a container    *)
(* engine whose calls may fail.                                            *)
(*                                                                         *)
(* Strings the code takes apart (names, image ids, labels, error messages) *)
(* are sequences of tokens, so that TrimPrefix, Cut, Contains and %w       *)
(* wrapping are computed and not assumed.  An engine call that returns an  *)
(* error has had no effect on the host.                                    *)
(***************************************************************************)
EXTENDS Integers, Sequences, FiniteSets, TLC

\* ------------------------------------------------------------------ bounds
\* Timer fires handled by Run: cycles after the first one.
MaxCycles == 1
\* Ticks of the 500 ms ticker that fit into the health wait's timeout.
MaxPolls == 2

\* ------------------------------------------------------------ string model
NoErr == <<>>

\* strings.TrimPrefix(s, p) on token sequences.
TrimPrefix(s, p) == IF Len(s) > 0 /\ s[1] = p THEN Tail(s) ELSE s

\* strings.TrimSpace on image ids: whitespace is its own token.
RECURSIVE TrimLeft(_)
TrimLeft(s) == IF Len(s) > 0 /\ s[1] = " " THEN TrimLeft(Tail(s)) ELSE s
RECURSIVE TrimRight(_)
TrimRight(s) ==
    IF Len(s) > 0 /\ s[Len(s)] = " " THEN TrimRight(SubSeq(s, 1, Len(s) - 1)) ELSE s
TrimSpace(s) == TrimRight(TrimLeft(s))

\* fmt.Errorf("<prefix> %w", err)
Wrap(prefix, err) == <<prefix>> \o err

\* shortName: "<noname>" for the empty name, else the name without its slash.
shortName(name) == IF name = <<>> THEN <<"<noname>">> ELSE TrimPrefix(name, "/")

\* shortID: drop the "sha256:" prefix, keep the first 12 characters.  The
\* tokens after the prefix are chunks of 12 characters.
shortID(id) ==
    LET t == TrimPrefix(id, "sha256:") IN IF Len(t) > 1 THEN <<t[1]>> ELSE t

\* ------------------------------------------------------------------ domain
Ref == <<"nginx", ":", "latest">>
NoRef == <<>>
IdOld == <<"sha256:", "abcabcabcabc", "0001">>
IdNew == <<"sha256:", "defdefdefdef", "0002">>
NoId == <<>>
ImageIds == {NoId, IdOld, IdNew}

RollingKey == <<"devem.tech/up-to-date.rolling">>
RollingSelector == RollingKey \o <<"=", "true">>

EnableKey == <<"devem.tech/up-to-date.enabled">>
EnableSelector == EnableKey \o <<"=", "true">>

NoLabels == [k \in {} |-> <<>>]
EnableLabels == [k \in {EnableKey} |-> <<"true">>]
BothLabels == [k \in {EnableKey, RollingKey} |-> <<"true">>]

NilHostConfig ==
    [present |-> FALSE, NetworkMode |-> "", PublishAllPorts |-> FALSE, PortBindings |-> 0]
BridgeHostConfig ==
    [present |-> TRUE, NetworkMode |-> "bridge", PublishAllPorts |-> FALSE, PortBindings |-> 0]
PortsHostConfig ==
    [present |-> TRUE, NetworkMode |-> "bridge", PublishAllPorts |-> FALSE, PortBindings |-> 1]

\* Errors an engine call can return on its own account: the engine's answer
\* for a container call, and for a pull either the registry's answer or a
\* network error.
NotFoundErr == <<"No such container">>
DeniedErr == <<"pull access denied">>
NetErr == <<"i/o ", "timeout">>
EngineErrs(op) == IF op = "pull" THEN {DeniedErr, NetErr} ELSE {NotFoundErr}
ConflictErr == <<"Conflict">>
CanceledErr == <<"context canceled">>

VARIABLES
    \* the container engine (host)
    containers,   \* id -> [name, image, running, Config, HostConfig]
    localTag,     \* what Ref resolves to in the local image store: [present, ID]
    images,       \* identities of the images in the local store
    registry,     \* the identity the registry serves for Ref
    nextId,       \* the id the engine gives the next container it creates
    \* configuration
    cfg,          \* Config: Cleanup, LabelEnable, RollingLabel, Notify
    \* registry credentials
    dockerConfig, \* the file --docker-config names: [readable, json, Auths]
    auths,        \* the index main loaded from it: [isNil, entries]
    loadErr,      \* the error the load returned
    reg,          \* the registry host of the last image reference resolved
    regAuth,      \* what the last lookup returned: [enc, found]
    \* Run
    pc,           \* the position of the single goroutine
    cancelled,    \* ctx.Done() is closed
    ticker,       \* time.NewTicker was called (run.go:25)
    tickPending,  \* t.C holds a tick (buffer of one)
    cycleNo,      \* cycles started by a timer fire
    \* runOnce
    list, idx, scanned, updated, failed, updatedRefs, failedRefs,
    \* updateContainerIfNeeded and the strategies
    cur, imageRef, oldImageID, newImageID, created, polls, pendingErr,
    \* history
    calls,        \* engine calls and health-wait returns of the current evaluation
    outcomes,     \* what each evaluation of this cycle returned to runOnce
    sessionDone,  \* this cycle logged "session done"
    notified,     \* notifications sent in this cycle: <<"ok">> or <<"error">>
    listFailed,   \* "this": the listing of this cycle failed; "prev": that of the cycle before
    earlier,      \* what the cycles before this one did to a container: [name, id, what]
    cancelAt,     \* where the goroutine was when the signal arrived
    lateCycles    \* cycles started after the signal

hostVars == <<containers, localTag, images, registry, nextId>>
loadVars == <<dockerConfig, auths, loadErr>>
resolveVars == <<reg, regAuth>>
runVars == <<cancelled, ticker, tickPending, cycleNo, cancelAt, lateCycles>>
cycleVars == <<list, idx, scanned, updated, failed, updatedRefs, failedRefs>>
evalVars == <<cur, imageRef, oldImageID, newImageID, created, polls, pendingErr>>
histVars == <<outcomes, sessionDone, notified, listFailed, earlier>>
vars == <<hostVars, cfg, loadVars, resolveVars, pc, runVars, cycleVars, evalVars, calls,
          histVars>>

\* ------------------------------------------------------------ the contexts
\* ctx.Err() of the context main hands to Run.
CtxErr == IF cancelled THEN CanceledErr ELSE NoErr

\* opCtx as ctx itself: it inherits the cancellation.
OpCtxErrInherited == CtxErr

\* opCtx := context.WithoutCancel(ctx): never done, Err() is always nil.
OpCtxErr == NoErr

\* What an engine call made under opCtx can return: the context's error when
\* it is done, else success (if the engine can carry the call out) or an
\* error of the engine's own.
CallOutcomes(op, possible) ==
    IF OpCtxErr # NoErr THEN {OpCtxErr}
    ELSE IF possible THEN {NoErr} \cup EngineErrs(op)
    ELSE {ConflictErr}

Call(op, id, arg, err) == [op |-> op, id |-> id, arg |-> arg, err |-> err]

\* ---------------------------------------------------------------- engine
Exists(id) == id \in DOMAIN containers

\* strings.Cut(label, "=")
RECURSIVE IndexOf(_, _, _)
IndexOf(s, sep, i) ==
    IF i > Len(s) THEN 0 ELSE IF s[i] = sep THEN i ELSE IndexOf(s, sep, i + 1)
Cut(s, sep) ==
    LET i == IndexOf(s, sep, 1) IN
    IF i = 0 THEN [before |-> s, after |-> <<>>, found |-> FALSE]
    ELSE [before |-> SubSeq(s, 1, i - 1), after |-> SubSeq(s, i + 1, Len(s)), found |-> TRUE]

\* The engine's label filter "label=<key>=<value>".
EngineLabelFilter(labels, selector) ==
    LET c == Cut(selector, "=") IN
    /\ c.before \in DOMAIN labels
    /\ c.found => labels[c.before] = c.after

\* container.Summary of a container.
Summary(id) ==
    [ID |-> id, Names |-> <<(<<"/">> \o containers[id].name)>>, ImageID |-> containers[id].image]

\* container.InspectResponse of a container.
Inspect(id) ==
    [ID |-> id, Name |-> <<"/">> \o containers[id].name, Image |-> containers[id].image,
     Config |-> containers[id].Config, HostConfig |-> containers[id].HostConfig]

\* The ids of a set, most recently created first, as the engine lists them.
RECURSIVE Newest(_)
Newest(S) ==
    IF S = {} THEN <<>>
    ELSE LET m == CHOOSE x \in S : \A y \in S : y <= x IN <<m>> \o Newest(S \ {m})

\* cli.ContainerList(All: all, Filters: label) as a sequence of summaries.
ContainerList(all, useFilter, selector) ==
    LET S == {id \in DOMAIN containers :
                /\ all \/ containers[id].running
                /\ useFilter => EngineLabelFilter(containers[id].Config.Labels, selector)}
        ids == Newest(S)
    IN [i \in 1..Len(ids) |-> Summary(ids[i])]

\* An engine that never finds a name taken.
NameInUseNever(name) == FALSE

\* The engine refuses to create or rename a container under a name that a
\* container of the host has (part_003:144-152, 178-186, 217).
NameInUse(name) == \E id \in DOMAIN containers : containers[id].name = name

Without(id) == [i \in DOMAIN containers \ {id} |-> containers[i]]

\* A new container that records the identity of the container it replaces.
NewContainerOldImage(name, config, hostConfig) ==
    [name |-> name, image |-> cur.Image, running |-> FALSE,
     Config |-> config, HostConfig |-> hostConfig]

\* The container the engine creates from Config, HostConfig and a name: its
\* image is what Config.Image resolves to in the local store.
NewContainer(name, config, hostConfig) ==
    [name |-> name, image |-> localTag.ID, running |-> FALSE,
     Config |-> config, HostConfig |-> hostConfig]

\* -------------------------------------------------------------- helpers
containerRefFromSummary(c) ==
    [Name |-> IF Len(c.Names) > 0 THEN shortName(c.Names[1]) ELSE <<"<unknown>">>,
     ID |-> c.ID]

\* strings.ToLower on the tokens of error messages.
ToLower(t) ==
    CASE t = "No such container" -> "no such container"
      [] t = "Conflict" -> "conflict"
      [] OTHER -> t

\* The patterns without the bare "timeout".
TransientPatternsNoTimeout ==
    {"context deadline exceeded", "tls handshake", "connection refused",
     "connection reset", "connection aborted", "no such host",
     "temporary failure in name resolution", "i/o timeout", "network is unreachable"}

\* The substrings isTransientError looks for (errors.go:23-44).
TransientPatterns ==
    {"timeout", "context deadline exceeded", "tls handshake", "connection refused",
     "connection reset", "connection aborted", "no such host",
     "temporary failure in name resolution", "i/o timeout", "network is unreachable"}

\* errors.Is on the context sentinels, then the match on the lower-cased message.
isTransientError(err) ==
    /\ err # NoErr
    /\ \/ \E i \in 1..Len(err) : err[i] \in {"context deadline exceeded", "context canceled"}
       \/ \E i \in 1..Len(err) : ToLower(err[i]) \in TransientPatterns

\* The host checks without the one for publish-all-ports.
supportsRollingUpdateBindingsOnly(c) ==
    IF ~c.HostConfig.present THEN TRUE
    ELSE IF c.HostConfig.NetworkMode = "host" THEN FALSE
    ELSE IF c.HostConfig.PortBindings > 0 THEN FALSE
    ELSE TRUE

supportsRollingUpdate(c) ==
    IF ~c.HostConfig.present THEN TRUE
    ELSE IF c.HostConfig.NetworkMode = "host" THEN FALSE
    ELSE IF c.HostConfig.PublishAllPorts THEN FALSE
    ELSE IF c.HostConfig.PortBindings > 0 THEN FALSE
    ELSE TRUE

\* The selector's value compared whenever the selector has an "=".
hasRollingLabelExact(c, label) ==
    LET cut == Cut(label, "=") IN
    IF DOMAIN c.Config.Labels = {} THEN FALSE
    ELSE IF label = <<>> THEN FALSE
    ELSE IF cut.before = <<>> THEN FALSE
    ELSE IF cut.before \notin DOMAIN c.Config.Labels THEN FALSE
    ELSE IF ~cut.found THEN TRUE
    ELSE c.Config.Labels[cut.before] = cut.after

hasRollingLabel(c, label) ==
    LET cut == Cut(label, "=") IN
    IF DOMAIN c.Config.Labels = {} THEN FALSE
    ELSE IF label = <<>> THEN FALSE
    ELSE IF cut.before = <<>> THEN FALSE
    ELSE IF cut.before \notin DOMAIN c.Config.Labels THEN FALSE
    ELSE IF ~cut.found \/ cut.after = <<>> THEN TRUE
    ELSE c.Config.Labels[cut.before] = cut.after

\* The decision without its checks for an empty identity.
NoUpdateIfEqual(old, new) == new = old

\* The decision of updateContainerIfNeeded (part_003:51).
NoUpdate(old, new) == new = NoId \/ old = NoId \/ new = old

\* ------------------------------------------------ registry credentials
\* Host names and URLs are split at every dot, colon and slash, the scheme
\* "https://" being one token.
DockerHubHost == <<"index", ".", "docker", ".", "io">>
LegacyKey == <<"https://">> \o DockerHubHost \o <<"/", "v1", "/">>

\* strings.TrimRight(s, "/")
RECURSIVE TrimRightSlash(_)
TrimRightSlash(s) ==
    IF Len(s) > 0 /\ s[Len(s)] = "/" THEN TrimRightSlash(SubSeq(s, 1, Len(s) - 1)) ELSE s

normalizeRegistryKey(s) == TrimRightSlash(TrimSpace(s))

\* strings.Contains(first, c) for a one-character c.
Contains(s, c) == \E i \in 1..Len(s) : s[i] = c

registryFromImageRef(ref) ==
    LET i == IndexOf(ref, "/", 1)
        first == IF i > 0 THEN SubSeq(ref, 1, i - 1) ELSE ref
    IN IF Contains(first, ".") \/ Contains(first, ":") \/ first = <<"localhost">>
       THEN first ELSE DockerHubHost

\* base64.StdEncoding on the tokens of "user:pass": every token has its own
\* encoding, and a text with any other token does not decode.
Base64 ==
    [t \in {"alice", "bob", "carol", "dave", "erin", ":", "pw"} |->
        CASE t = "alice" -> "YWxpY2U"
          [] t = "bob" -> "Ym9i"
          [] t = "carol" -> "Y2Fyb2w"
          [] t = "dave" -> "ZGF2ZQ"
          [] t = "erin" -> "ZXJpbg"
          [] t = ":" -> "Og"
          [] OTHER -> "cHc"]
EncodeToString(raw) == [i \in 1..Len(raw) |-> Base64[raw[i]]]
DecodeString(text) ==
    IF \A i \in 1..Len(text) : \E t \in DOMAIN Base64 : Base64[t] = text[i]
    THEN [raw |-> [i \in 1..Len(text) |-> CHOOSE t \in DOMAIN Base64 : Base64[t] = text[i]],
          err |-> NoErr]
    ELSE [raw |-> <<>>, err |-> <<"illegal base64 data">>]

\* authconfig.Encode: the JSON of the credential in URL-safe base64.
Encode(ac) ==
    <<"base64url", "{">> \o ac.Username \o <<",">> \o ac.Password \o <<",">>
                         \o ac.ServerAddress \o <<"}">>

\* The entry the load makes of a server and its auth text (auth.go:41-46).
AuthConfig(server, text) ==
    LET cut == Cut(DecodeString(text).raw, ":") IN
    [Username |-> cut.before, Password |-> cut.after, ServerAddress |-> server]

\* The loop without its check for an empty auth.
KeptDecodable(file) ==
    {server \in DOMAIN file.Auths : DecodeString(file.Auths[server]).err = NoErr}

\* The entries of the file the loop of auth.go:33-47 keeps.
Kept(file) ==
    {server \in DOMAIN file.Auths :
        file.Auths[server] # <<>> /\ DecodeString(file.Auths[server]).err = NoErr}

NilIndex == [isNil |-> TRUE, entries |-> <<>>]
ReadErr == <<"open ", "config.json", ": no such file or directory">>
ParseErr == <<"invalid character">>

\* What loadDockerConfigAuths can return for a file (auth.go:21-49).  The
\* loop ranges over a map: of two servers with the same normalised key the
\* one visited last is the one the index holds, and the order is not fixed.
loadDockerConfigAuths(file) ==
    IF ~file.readable THEN {[index |-> NilIndex, err |-> ReadErr]}
    ELSE IF ~file.json THEN {[index |-> NilIndex, err |-> ParseErr]}
    ELSE LET keys == {normalizeRegistryKey(server) : server \in Kept(file)}
             from(k) == {AuthConfig(server, file.Auths[server]) :
                            server \in {x \in Kept(file) : normalizeRegistryKey(x) = k}}
         IN {[index |-> [isNil |-> FALSE, entries |-> e], err |-> NoErr] :
                e \in {f \in [keys -> UNION {from(k) : k \in keys}] :
                          \A k \in keys : f[k] \in from(k)}}

\* The candidates of the host alone.
CandidatesOwnOnly(host) ==
    <<normalizeRegistryKey(host),
      normalizeRegistryKey(<<"https://">> \o host),
      normalizeRegistryKey(<<"https://">> \o host \o <<"/", "v1", "/">>)>>

\* The legacy key tried before the keys of the registry itself.
CandidatesLegacyFirst(host) ==
    <<normalizeRegistryKey(LegacyKey),
      normalizeRegistryKey(host),
      normalizeRegistryKey(<<"https://">> \o host),
      normalizeRegistryKey(<<"https://">> \o host \o <<"/", "v1", "/">>)>>

\* The candidate keys of a registry host (auth.go:55-60).
Candidates(host) ==
    <<normalizeRegistryKey(host),
      normalizeRegistryKey(<<"https://">> \o host),
      normalizeRegistryKey(<<"https://">> \o host \o <<"/", "v1", "/">>),
      normalizeRegistryKey(LegacyKey)>>

NoAuth == [enc |-> <<>>, found |-> FALSE]

\* The loop over the candidates (auth.go:62-71); a nil index has no keys.
Lookup(index, host) ==
    LET cands == Candidates(host)
        hits == {i \in 1..Len(cands) : cands[i] \in DOMAIN index.entries}
    IN IF hits = {} THEN NoAuth
       ELSE LET first == CHOOSE i \in hits : \A j \in hits : i <= j
            IN [enc |-> Encode(index.entries[cands[first]]), found |-> TRUE]

registryAuthForImageRef(index, ref) ==
    CHOOSE a \in {Lookup(index, host) : host \in {registryFromImageRef(ref)}} : TRUE

\* No --docker-config: there is no file to read.
NoFile == [readable |-> FALSE, json |-> FALSE, Auths |-> <<>>]

\* ------------------------------------------------------------------- Init
NoCur ==
    [ID |-> 0, Name |-> <<>>, Image |-> NoId,
     Config |-> [Image |-> NoRef, Labels |-> NoLabels, Healthcheck |-> FALSE],
     HostConfig |-> NilHostConfig]

NoCleanup == [removed |-> FALSE, reason |-> "", err |-> NoErr]

\* The configurations of the container "web": recreate, rolling without and
\* with a health check, and a rolling label on a container with port bindings.
WebProfiles ==
    {[Labels |-> EnableLabels, HostConfig |-> BridgeHostConfig, Healthcheck |-> FALSE],
     [Labels |-> BothLabels, HostConfig |-> BridgeHostConfig, Healthcheck |-> FALSE],
     [Labels |-> BothLabels, HostConfig |-> BridgeHostConfig, Healthcheck |-> TRUE],
     [Labels |-> BothLabels, HostConfig |-> PortsHostConfig, Healthcheck |-> FALSE]}

Web(p, image) ==
    [name |-> <<"web">>, image |-> image, running |-> TRUE,
     Config |-> [Image |-> Ref, Labels |-> p.Labels, Healthcheck |-> p.Healthcheck],
     HostConfig |-> p.HostConfig]

\* A second managed container on the same image, and an unmanaged stopped one.
Db ==
    [name |-> <<"db">>, image |-> IdOld, running |-> TRUE,
     Config |-> [Image |-> Ref, Labels |-> EnableLabels, Healthcheck |-> FALSE],
     HostConfig |-> PortsHostConfig]
Aux ==
    [name |-> <<"aux">>, image |-> IdOld, running |-> FALSE,
     Config |-> [Image |-> Ref, Labels |-> NoLabels, Healthcheck |-> FALSE],
     HostConfig |-> BridgeHostConfig]

\* The hosts and configurations a run starts from: the container "web" alone
\* in its plain configuration with every pair of recorded and published
\* identity; "web" alone in every configuration, with and without cleanup;
\* "web" in every configuration next to one other container; "web" alone
\* in its plain configuration when no notifier is configured; and "web" alone
\* when the engine reports it without an image reference.
InitialHosts ==
    {[web |-> Web(p, image), others |-> {}, registry |-> published, cleanup |-> TRUE,
      notify |-> TRUE] :
        p \in {CHOOSE q \in WebProfiles : q.Labels = EnableLabels},
        image \in {NoId, IdOld}, published \in ImageIds}
    \cup
    {[web |-> Web(p, IdOld), others |-> {}, registry |-> IdNew, cleanup |-> cleanup,
      notify |-> TRUE] :
        p \in WebProfiles, cleanup \in BOOLEAN}
    \cup
    {[web |-> Web(p, IdOld), others |-> {other}, registry |-> IdNew, cleanup |-> TRUE,
      notify |-> TRUE] :
        p \in WebProfiles, other \in {2, 3}}
    \cup
    {[web |-> Web(p, IdOld), others |-> {}, registry |-> IdNew, cleanup |-> FALSE,
      notify |-> FALSE] :
        p \in {CHOOSE q \in WebProfiles : q.Labels = EnableLabels}}
    \cup
    {[web |-> [Web(p, IdOld) EXCEPT !.Config.Image = NoRef], others |-> {},
      registry |-> IdNew, cleanup |-> TRUE, notify |-> TRUE] :
        p \in {CHOOSE q \in WebProfiles : q.Labels = EnableLabels}}

\* A ticker created before the first cycle.
TickerAtEntryRunning == TRUE

\* Run calls runOnce before it creates the ticker (run.go:19-25).
TickerAtEntry == FALSE

\* The state after construction on one of the hosts.
InitOn(hosts) ==
    /\ \E h \in hosts :
         /\ containers = [i \in {1} \cup h.others |->
                           IF i = 1 THEN h.web ELSE IF i = 2 THEN Db ELSE Aux]
         /\ registry = h.registry
         /\ cfg = [Cleanup |-> h.cleanup, LabelEnable |-> TRUE, Label |-> EnableSelector,
                   RollingLabel |-> RollingSelector, Notify |-> h.notify]
    /\ dockerConfig = NoFile
    /\ \E l \in loadDockerConfigAuths(NoFile) : auths = l.index /\ loadErr = l.err
    /\ reg = <<>> /\ regAuth = NoAuth
    /\ localTag = [present |-> TRUE, ID |-> IdOld]
    /\ images = {IdOld}
    /\ nextId = 4
    /\ pc = "list"
    /\ cancelled = FALSE /\ ticker = TickerAtEntry /\ tickPending = FALSE /\ cycleNo = 0
    /\ cancelAt = "never" /\ lateCycles = 0
    /\ list = <<>> /\ idx = 1 /\ scanned = 0 /\ updated = 0 /\ failed = 0
    /\ updatedRefs = <<>> /\ failedRefs = <<>>
    /\ cur = NoCur /\ imageRef = NoRef /\ oldImageID = NoId /\ newImageID = NoId
    /\ created = 0 /\ polls = 0 /\ pendingErr = NoErr
    /\ calls = <<>> /\ outcomes = <<>> /\ sessionDone = FALSE /\ notified = <<>>
    /\ listFailed = "no" /\ earlier = {}

Init == InitOn(InitialHosts)

\* ---------------------------------------------------------------- runOnce
\* A failed listing treated as an empty one.
AfterListErrorSummary == "finish"

\* Where runOnce goes when the listing fails (run.go:46-49): it returns.
AfterListError == "check"

\* The head of the loop over the listed containers (run.go:58).
LoopHead(i, n) == IF i <= n THEN "inspect" ELSE "finish"

\* A loop that ends at the first error.
AfterEvaluationBreak(i, n, err) == IF err # NoErr THEN "finish" ELSE LoopHead(i + 1, n)

\* Where the loop goes after the evaluation of container i returned err
\* (run.go:61-68, the continue, and the fall through of run.go:69-77).
AfterEvaluation(i, n, err) == LoopHead(i + 1, n)

\* A failed list that takes every failure.
AppendFailedRefAlways(refs, name, err) == Append(refs, [Name |-> name, Info |-> err])

\* The failed list after a failure (run.go:64-66): a transient error is left
\* out of it.
AppendFailedRef(refs, name, err) ==
    IF ~isTransientError(err) THEN Append(refs, [Name |-> name, Info |-> err]) ELSE refs

\* The locals of the strategies end with the evaluation; cur and the two
\* identities stay as the evaluation left them until the next one begins.
ResetEval ==
    /\ imageRef' = NoRef /\ created' = 0 /\ polls' = 0 /\ pendingErr' = NoErr

\* updateContainerIfNeeded returns (wasUpdated, newId, err) to the loop body
\* of runOnce (run.go:60-77).
Return(wasUpdated, newId, err, cleanup) ==
    LET ref == containerRefFromSummary(list[idx])
        info == IF shortID(newId) = <<>> THEN <<"unknown">> ELSE shortID(newId)
    IN
    /\ outcomes' = Append(outcomes, [name |-> ref.Name, id |-> list[idx].ID,
                                     updated |-> wasUpdated, err |-> err, cleanup |-> cleanup])
    /\ IF err # NoErr
       THEN /\ failed' = failed + 1
            /\ failedRefs' = AppendFailedRef(failedRefs, ref.Name, err)
            /\ UNCHANGED <<updated, updatedRefs>>
       ELSE /\ IF wasUpdated
               THEN /\ updated' = updated + 1
                    /\ updatedRefs' = Append(updatedRefs, [Name |-> ref.Name, Info |-> info])
               ELSE UNCHANGED <<updated, updatedRefs>>
            /\ UNCHANGED <<failed, failedRefs>>
    /\ idx' = idx + 1
    /\ pc' = AfterEvaluation(idx, Len(list), err)
    /\ UNCHANGED <<list, scanned>>
    /\ ResetEval
    /\ UNCHANGED <<cur, oldImageID, newImageID>>

\* updateContainerIfNeeded returns an error before it has read the identities
\* (part_003:18-29).
ReturnEarly(err, inspected) ==
    LET ref == containerRefFromSummary(list[idx]) IN
    /\ outcomes' = Append(outcomes, [name |-> ref.Name, id |-> list[idx].ID,
                                     updated |-> FALSE, err |-> err, cleanup |-> NoCleanup])
    /\ failed' = failed + 1
    /\ failedRefs' = AppendFailedRef(failedRefs, ref.Name, err)
    /\ idx' = idx + 1
    /\ pc' = AfterEvaluation(idx, Len(list), err)
    /\ UNCHANGED <<list, scanned, updated, updatedRefs>>
    /\ ResetEval
    /\ cur' = inspected /\ oldImageID' = NoId /\ newImageID' = NoId

\* The evaluation goes on to its next engine call.
Goto(next) ==
    /\ pc' = next
    /\ UNCHANGED <<cycleVars, outcomes>>

\* A listing that takes the stopped containers too.
ListAllStopped == TRUE

\* The option All of the listing of the targets (docker.go:20).
ListAll == FALSE

\* listTargetContainers and the set-up of runOnce (run.go:43-56, docker.go:13-27).
ListTargetContainers ==
    /\ pc = "list"
    /\ \E e \in CallOutcomes("list", TRUE) :
         /\ calls' = <<Call("list", 0, <<>>, e)>>
         /\ IF e # NoErr
            THEN /\ pc' = AfterListError
                 /\ list' = <<>> /\ scanned' = 0
                 /\ listFailed' = "this"
            ELSE /\ list' = ContainerList(ListAll, cfg.LabelEnable, cfg.Label)
                 /\ scanned' = Len(list')
                 /\ pc' = LoopHead(1, Len(list'))
                 /\ listFailed' = IF listFailed = "this" THEN "prev" ELSE "no"
    /\ idx' = 1 /\ updated' = 0 /\ failed' = 0 /\ updatedRefs' = <<>> /\ failedRefs' = <<>>
    /\ outcomes' = <<>> /\ sessionDone' = FALSE /\ notified' = <<>>
    /\ cur' = NoCur /\ oldImageID' = NoId /\ newImageID' = NoId
    /\ UNCHANGED <<imageRef, created, polls, pendingErr>>
    /\ UNCHANGED <<hostVars, cfg, loadVars, resolveVars, runVars, earlier>>

\* Anything to report taken from the counters of the summary.
AnythingToReportCounted == updated > 0 \/ failed > 0

\* Whether the cycle has anything to report (run.go:89).
AnythingToReport == Len(updatedRefs) > 0 \/ Len(failedRefs) > 0

\* "session done" and the notification (run.go:79-95); the send may fail.
Finish ==
    /\ pc = "finish"
    /\ sessionDone' = TRUE
    /\ IF cfg.Notify /\ AnythingToReport
       THEN \E r \in (IF OpCtxErr # NoErr THEN {"error"} ELSE {"ok", "error"}) :
              notified' = Append(notified, r)
       ELSE notified' = notified
    /\ pc' = "check"
    /\ UNCHANGED <<hostVars, cfg, loadVars, resolveVars, runVars, cycleVars, evalVars, calls,
                   outcomes, listFailed, earlier>>

\* ------------------------------------------------ updateContainerIfNeeded
UNCHANGED_PROGRAM ==
    UNCHANGED <<cfg, loadVars, runVars, sessionDone, notified, listFailed, earlier>>
UNCHANGED_RUN == UNCHANGED_PROGRAM /\ UNCHANGED resolveVars

Log(c) == calls' = Append(calls, c)

\* ContainerInspect and the empty-image check (part_003:17-36).
InspectContainer ==
    /\ pc = "inspect"
    /\ LET id == list[idx].ID IN
       \E e \in CallOutcomes("inspect", Exists(id)) :
         /\ calls' = <<Call("inspect", id, <<>>, e)>>
         /\ IF e # NoErr
            THEN ReturnEarly(Wrap("inspect container:", e), NoCur)
            ELSE IF Inspect(id).Config.Image = NoRef
            THEN ReturnEarly(<<"container has empty Config.Image">>, Inspect(id))
            ELSE /\ cur' = Inspect(id)
                 /\ imageRef' = Inspect(id).Config.Image
                 /\ oldImageID' = Inspect(id).Image
                 /\ newImageID' = NoId
                 /\ Goto(IF Inspect(id).Image = NoId THEN "inspectOld" ELSE "pull")
                 /\ UNCHANGED <<created, polls, pendingErr>>
    /\ UNCHANGED hostVars
    /\ UNCHANGED_RUN

\* The fall-back for a container without a recorded image id (part_003:32-36).
InspectOldImage ==
    /\ pc = "inspectOld"
    /\ \E e \in CallOutcomes("imageInspect", localTag.present) :
         /\ Log(Call("imageInspect", 0, imageRef, e))
         /\ oldImageID' = IF e = NoErr THEN localTag.ID ELSE oldImageID
    /\ Goto("pull")
    /\ UNCHANGED <<cur, imageRef, newImageID, created, polls, pendingErr>>
    /\ UNCHANGED hostVars
    /\ UNCHANGED_RUN

\* A failed pull that is not returned.
PullFailureIgnored(err) ==
    /\ Goto("inspectNew")
    /\ UNCHANGED evalVars

\* A failed pull ends the evaluation (part_003:41-43).
PullFailure(err) == Return(FALSE, NoId, Wrap("pull:", err), NoCleanup)

\* The lookup of the credential and pullImage (part_003:40-43,
\* docker.go:44-54); the pull carries imageRef and the credential found.
PullImage ==
    /\ pc = "pull"
    /\ reg' = registryFromImageRef(imageRef)
    /\ regAuth' = registryAuthForImageRef(auths, imageRef)
    /\ \E e \in CallOutcomes("pull", TRUE) :
         /\ Log(Call("pull", 0, imageRef, e))
         /\ IF e # NoErr
            THEN /\ PullFailure(e)
                 /\ UNCHANGED hostVars
            ELSE /\ localTag' = [present |-> TRUE, ID |-> registry]
                 /\ images' = images \cup {registry}
                 /\ Goto("inspectNew")
                 /\ UNCHANGED <<containers, registry, nextId, evalVars>>
    /\ UNCHANGED_PROGRAM

\* "no update" (part_003:49-54).
ReturnNoUpdate(new) ==
    /\ outcomes' = Append(outcomes, [name |-> containerRefFromSummary(list[idx]).Name,
                                     id |-> list[idx].ID, updated |-> FALSE,
                                     err |-> NoErr, cleanup |-> NoCleanup])
    /\ idx' = idx + 1
    /\ pc' = AfterEvaluation(idx, Len(list), NoErr)
    /\ UNCHANGED <<list, scanned, updated, updatedRefs, failed, failedRefs>>
    /\ ResetEval
    /\ newImageID' = new
    /\ UNCHANGED <<cur, oldImageID>>

\* The strategy chosen for a container (part_003:58).
Strategy(c) ==
    IF supportsRollingUpdate(c) /\ hasRollingLabel(c, cfg.RollingLabel)
    THEN "rollingCreate" ELSE "recreateStop"

\* ImageInspect of the pulled image and the decision (part_003:45-66).
InspectPulledImage ==
    /\ pc = "inspectNew"
    /\ \E e \in CallOutcomes("imageInspect", localTag.present) :
         /\ Log(Call("imageInspect", 0, imageRef, e))
         /\ IF e # NoErr
            THEN Return(FALSE, NoId, Wrap("inspect pulled image:", e), NoCleanup)
            ELSE IF NoUpdate(oldImageID, localTag.ID)
            THEN ReturnNoUpdate(localTag.ID)
            ELSE /\ newImageID' = localTag.ID
                 /\ Goto(Strategy(cur))
                 /\ UNCHANGED <<cur, imageRef, oldImageID, created, polls, pendingErr>>
    /\ UNCHANGED hostVars
    /\ UNCHANGED_RUN

\* The cleanup taken to be always on.
CleanupEnabledAlways == TRUE

\* The cleanup flag of the configuration (part_003:68, docker.go:97).
CleanupEnabled == cfg.Cleanup

\* A strategy that hands the container back to runOnce before the cleanup.
StrategyDoneEarly == Return(TRUE, newImageID, NoErr, NoCleanup)


\* The end of a strategy that succeeded (part_003:68-81): on to the cleanup,
\* or back to runOnce.
StrategyDone ==
    IF CleanupEnabled
    THEN /\ Goto("cleanup")
         /\ UNCHANGED <<cur, imageRef, oldImageID, newImageID, created, polls, pendingErr>>
    ELSE Return(TRUE, newImageID, NoErr, NoCleanup)

fullName == TrimPrefix(cur.Name, "/")
tempName == fullName \o <<".next">>
newConfig == [cur.Config EXCEPT !.Image = imageRef]

\* ------------------------------------------------------ recreateContainer
\* The first container of the listing.
OldTargetFirstListed == list[1].ID

\* The container a strategy stops and removes (part_003:130, 135, 204, 209):
\* the one updateContainerIfNeeded inspected.
OldTarget == cur.ID

UNCHANGED_EVAL == UNCHANGED <<cur, imageRef, oldImageID, newImageID, created, polls, pendingErr>>

\* The remove left out.
AfterStopCreate == "recreateCreate"

\* The step after a stop that succeeded (part_003:130-135).
AfterStop == "recreateRemove"

RecreateStop ==
    /\ pc = "recreateStop"
    /\ \E e \in CallOutcomes("stop", Exists(OldTarget)) :
         /\ Log(Call("stop", OldTarget, <<>>, e))
         /\ IF e # NoErr
            THEN /\ Return(FALSE, NoId, Wrap("stop:", e), NoCleanup)
                 /\ UNCHANGED hostVars
            ELSE /\ containers' = [containers EXCEPT ![OldTarget].running = FALSE]
                 /\ Goto(AfterStop)
                 /\ UNCHANGED_EVAL
                 /\ UNCHANGED <<localTag, images, registry, nextId>>
    /\ UNCHANGED_RUN

RecreateRemove ==
    /\ pc = "recreateRemove"
    /\ \E e \in CallOutcomes("remove", Exists(OldTarget) /\ ~containers[OldTarget].running) :
         /\ Log(Call("remove", OldTarget, <<>>, e))
         /\ IF e # NoErr
            THEN /\ Return(FALSE, NoId, Wrap("remove:", e), NoCleanup)
                 /\ UNCHANGED hostVars
            ELSE /\ containers' = Without(OldTarget)
                 /\ Goto("recreateCreate")
                 /\ UNCHANGED_EVAL
                 /\ UNCHANGED <<localTag, images, registry, nextId>>
    /\ UNCHANGED_RUN

RecreateCreate ==
    /\ pc = "recreateCreate"
    /\ \E e \in CallOutcomes("create", ~NameInUse(fullName) /\ localTag.present) :
         /\ Log(Call("create", IF e = NoErr THEN nextId ELSE 0, fullName, e))
         /\ IF e # NoErr
            THEN /\ Return(FALSE, NoId, Wrap("create:", e), NoCleanup)
                 /\ UNCHANGED hostVars
            ELSE /\ containers' =
                      (nextId :> NewContainer(fullName, newConfig, cur.HostConfig)) @@ containers
                 /\ nextId' = nextId + 1
                 /\ created' = nextId
                 /\ Goto("recreateStart")
                 /\ UNCHANGED <<cur, imageRef, oldImageID, newImageID, polls, pendingErr>>
                 /\ UNCHANGED <<localTag, images, registry>>
    /\ UNCHANGED_RUN

RecreateStart ==
    /\ pc = "recreateStart"
    /\ \E e \in CallOutcomes("start", Exists(created)) :
         /\ Log(Call("start", created, <<>>, e))
         /\ IF e # NoErr
            THEN /\ Return(FALSE, NoId, Wrap("start:", e), NoCleanup)
                 /\ UNCHANGED hostVars
            ELSE /\ containers' = [containers EXCEPT ![created].running = TRUE]
                 /\ StrategyDone
                 /\ UNCHANGED <<localTag, images, registry, nextId>>
    /\ UNCHANGED_RUN

\* ------------------------------------------------- rollingUpdateContainer
UNCHANGED_STORE == UNCHANGED <<localTag, images, registry, nextId>>

\* The failure of a rolling update as updateContainerIfNeeded returns it.
RollingErr(err) == Wrap("rolling update:", err)

RollingCreate ==
    /\ pc = "rollingCreate"
    /\ \E e \in CallOutcomes("create", ~NameInUse(tempName) /\ localTag.present) :
         /\ Log(Call("create", IF e = NoErr THEN nextId ELSE 0, tempName, e))
         /\ IF e # NoErr
            THEN /\ Return(FALSE, NoId, RollingErr(Wrap("create:", e)), NoCleanup)
                 /\ UNCHANGED hostVars
            ELSE /\ containers' =
                      (nextId :> NewContainer(tempName, newConfig, cur.HostConfig)) @@ containers
                 /\ nextId' = nextId + 1
                 /\ created' = nextId
                 /\ Goto("rollingStart")
                 /\ UNCHANGED <<cur, imageRef, oldImageID, newImageID, polls, pendingErr>>
                 /\ UNCHANGED <<localTag, images, registry>>
    /\ UNCHANGED_RUN

RollingStart ==
    /\ pc = "rollingStart"
    /\ \E e \in CallOutcomes("start", Exists(created)) :
         /\ Log(Call("start", created, <<>>, e))
         /\ IF e # NoErr
            THEN /\ pendingErr' = Wrap("start:", e)
                 /\ Goto("rollingAbort")
                 /\ UNCHANGED containers
            ELSE /\ containers' = [containers EXCEPT ![created].running = TRUE]
                 /\ Goto("healthInspect")
                 /\ UNCHANGED pendingErr
    /\ UNCHANGED <<cur, imageRef, oldImageID, newImageID, created, polls>>
    /\ UNCHANGED_STORE
    /\ UNCHANGED_RUN

\* The force-remove of the replacement after a failed start or health wait
\* (part_003:194-195, 199-200); its result is dropped.
\* The force-remove aimed at the original container.
AbortTargetOriginal == cur.ID

\* The container the abort force-removes (part_003:194, 199).
AbortTarget == created

RollingAbort ==
    /\ pc = "rollingAbort"
    /\ \E e \in CallOutcomes("forceRemove", Exists(AbortTarget)) :
         /\ Log(Call("forceRemove", AbortTarget, <<>>, e))
         /\ containers' = IF e = NoErr THEN Without(AbortTarget) ELSE containers
    /\ Return(FALSE, NoId, RollingErr(pendingErr), NoCleanup)
    /\ UNCHANGED_STORE
    /\ UNCHANGED_RUN

\* ---------------------------------------------- waitForHealthyIfConfigured
HealthStates == {"none", "starting", "healthy", "unhealthy"}
TimeoutErr == <<"timeout", " waiting for healthy">>
UnhealthyErr == <<"container reported unhealthy">>

\* waitForHealthyIfConfigured returns err to rollingUpdateContainer
\* (part_003:198-201): abort on an error, else on to stopping the old one.
\* The result of the health wait dropped.
AfterHealthIgnored(err) == "rollingStop"

AfterHealth(err) == IF err # NoErr THEN "rollingAbort" ELSE "rollingStop"

HealthReturn(err) ==
    /\ pendingErr' = IF err # NoErr THEN Wrap("health check:", err) ELSE pendingErr
    /\ Goto(AfterHealth(err))
    /\ polls' = 0

\* Every container taken to declare a health check.
HasHealthcheckAlways(id) == TRUE

\* cur.Config.Healthcheck != nil of the inspected replacement (part_003:232).
HasHealthcheck(id) == containers[id].Config.Healthcheck

\* The inspect before the loop (part_003:227-234).
HealthInspect ==
    /\ pc = "healthInspect"
    /\ \E e \in CallOutcomes("inspect", Exists(created)) :
         /\ IF e # NoErr
            THEN /\ calls' = calls \o <<Call("inspect", created, <<>>, e),
                                        Call("waitForHealthy", created, <<>>, e)>>
                 /\ HealthReturn(e)
            ELSE IF ~HasHealthcheck(created)
            THEN /\ calls' = calls \o <<Call("inspect", created, <<>>, e),
                                        Call("waitForHealthy", created, <<>>, NoErr)>>
                 /\ HealthReturn(NoErr)
            ELSE /\ Log(Call("inspect", created, <<>>, e))
                 /\ Goto("healthSelect")
                 /\ UNCHANGED <<polls, pendingErr>>
    /\ UNCHANGED <<cur, imageRef, oldImageID, newImageID, created>>
    /\ UNCHANGED hostVars
    /\ UNCHANGED_RUN

\* A select without the deadline.
ReadyCasesNoDeadline ==
    (IF polls < MaxPolls THEN {"tick"} ELSE {})
        \cup (IF OpCtxErr # NoErr THEN {"done"} ELSE {})

\* The cases of the select that are ready (part_003:242-247): the deadline
\* at any time, a tick while the timeout leaves room for one, ctx.Done()
\* when the context is done.
ReadyCases ==
    {"deadline"} \cup (IF polls < MaxPolls THEN {"tick"} ELSE {})
                 \cup (IF OpCtxErr # NoErr THEN {"done"} ELSE {})

\* A poll that goes on when the inspect carries no health state.
PollResultNoneContinues(h) ==
    CASE h = "healthy" -> NoErr
      [] h = "unhealthy" -> UnhealthyErr
      [] OTHER -> <<"continue">>

\* A poll that goes on after it read unhealthy.
PollResultLenient(h) ==
    CASE h = "none" -> NoErr
      [] h = "healthy" -> NoErr
      [] OTHER -> <<"continue">>

\* What a poll returns for the health it read (part_003:253-261); "continue"
\* for a status that is neither healthy nor unhealthy.
PollResult(h) ==
    CASE h = "none" -> NoErr
      [] h = "healthy" -> NoErr
      [] h = "unhealthy" -> UnhealthyErr
      [] OTHER -> <<"continue">>

\* One round of the loop (part_003:241-263).
HealthSelect ==
    /\ pc = "healthSelect"
    /\ \E c \in ReadyCases :
         IF c = "done"
         THEN /\ Log(Call("waitForHealthy", created, <<>>, OpCtxErr))
              /\ HealthReturn(OpCtxErr)
         ELSE IF c = "deadline"
         THEN /\ Log(Call("waitForHealthy", created, <<>>, TimeoutErr))
              /\ HealthReturn(TimeoutErr)
         ELSE \E e \in CallOutcomes("inspect", Exists(created)), h \in HealthStates :
                IF e # NoErr
                THEN /\ calls' = calls \o <<Call("inspect", created, <<>>, e),
                                            Call("waitForHealthy", created, <<>>, e)>>
                     /\ HealthReturn(e)
                ELSE IF PollResult(h) = <<"continue">>
                THEN /\ Log(Call("inspect", created, <<h>>, e))
                     /\ polls' = polls + 1
                     /\ Goto("healthSelect")
                     /\ UNCHANGED pendingErr
                ELSE /\ calls' = calls \o <<Call("inspect", created, <<h>>, e),
                                            Call("waitForHealthy", created, <<>>, PollResult(h))>>
                     /\ HealthReturn(PollResult(h))
    /\ UNCHANGED <<cur, imageRef, oldImageID, newImageID, created>>
    /\ UNCHANGED hostVars
    /\ UNCHANGED_RUN

\* ------------------------------------------- the tail of the rolling update
\* A failure of the tail that force-removes the replacement first.
TailFailureAbort(err) ==
    /\ pendingErr' = err
    /\ Goto("rollingAbort")
    /\ UNCHANGED <<cur, imageRef, oldImageID, newImageID, created, polls>>

\* A failure of the stop or the remove of the old container, or of the
\* rename (part_003:204-219): the wrapped error is returned at once.
TailFailure(err) == Return(FALSE, NoId, RollingErr(err), NoCleanup)

\* The remove of the old container left out.
AfterRollingStopRename == "rollingRename"

\* The step after the stop of the old container succeeded (part_003:204-209).
AfterRollingStop == "rollingRemove"

RollingStop ==
    /\ pc = "rollingStop"
    /\ \E e \in CallOutcomes("stop", Exists(OldTarget)) :
         /\ Log(Call("stop", OldTarget, <<>>, e))
         /\ IF e # NoErr
            THEN /\ TailFailure(Wrap("stop old:", e))
                 /\ UNCHANGED hostVars
            ELSE /\ containers' = [containers EXCEPT ![OldTarget].running = FALSE]
                 /\ Goto(AfterRollingStop)
                 /\ UNCHANGED_EVAL
                 /\ UNCHANGED_STORE
    /\ UNCHANGED_RUN

RollingRemove ==
    /\ pc = "rollingRemove"
    /\ \E e \in CallOutcomes("remove", Exists(OldTarget) /\ ~containers[OldTarget].running) :
         /\ Log(Call("remove", OldTarget, <<>>, e))
         /\ IF e # NoErr
            THEN /\ TailFailure(Wrap("remove old:", e))
                 /\ UNCHANGED hostVars
            ELSE /\ containers' = Without(OldTarget)
                 /\ Goto("rollingRename")
                 /\ UNCHANGED_EVAL
                 /\ UNCHANGED_STORE
    /\ UNCHANGED_RUN

RollingRename ==
    /\ pc = "rollingRename"
    /\ \E e \in CallOutcomes("rename", Exists(created) /\ ~NameInUse(fullName)) :
         /\ Log(Call("rename", created, fullName, e))
         /\ IF e # NoErr
            THEN /\ TailFailure(Wrap("rename:", e))
                 /\ UNCHANGED hostVars
            ELSE /\ containers' = [containers EXCEPT ![created].name = fullName]
                 /\ StrategyDone
                 /\ UNCHANGED_STORE
    /\ UNCHANGED_RUN

\* ------------------------------------------------ cleanupOldImageIfUnused
\* The listing of the running containers only.
CleanupListingRunning == ContainerList(FALSE, FALSE, <<>>)

\* The listing the cleanup checks (docker.go:62): every container of the
\* host, stopped ones included, no label filter.
CleanupListing == ContainerList(TRUE, FALSE, <<>>)

\* No image taken to be in use.
InUseNever(listing, id) == FALSE

\* Every image taken to be in use.
InUseAlways(listing, id) == TRUE

\* Whether a listed container references the image (docker.go:66-70).
InUse(listing, id) == \E i \in 1..Len(listing) : listing[i].ImageID = id

\* The engine refuses a non-forced removal of an image a container uses.
Removable(id) ==
    /\ id \in images
    /\ \A c \in DOMAIN containers : containers[c].image # id

\* A cleanup error returned as the container's error.
AfterCleanupErrPropagated(err) == err

\* What updateContainerIfNeeded returns for a cleanup that returned err
\* (part_003:69-76): the error is logged, never returned.
AfterCleanupErr(err) == NoErr

CleanupResult(removed, reason, err) == [removed |-> removed, reason |-> reason, err |-> err]

ReturnCleaned(res) ==
    Return(AfterCleanupErr(res.err) = NoErr,
           IF AfterCleanupErr(res.err) = NoErr THEN newImageID ELSE NoId,
           AfterCleanupErr(res.err), res)

\* cleanupOldImageIfUnused and the return of updateContainerIfNeeded
\* (docker.go:56-82, part_003:68-81).
Cleanup ==
    /\ pc = "cleanup"
    /\ LET old == TrimSpace(oldImageID) IN
       IF old = NoId
       THEN /\ ReturnCleaned(CleanupResult(FALSE, "empty image id", NoErr))
            /\ UNCHANGED <<hostVars, calls>>
       ELSE \E e \in CallOutcomes("listAll", TRUE) :
              IF e # NoErr
              THEN /\ Log(Call("listAll", 0, <<>>, e))
                   /\ ReturnCleaned(CleanupResult(FALSE, "failed to list containers",
                                               Wrap("list containers for cleanup:", e)))
                   /\ UNCHANGED hostVars
              ELSE IF InUse(CleanupListing, old)
              THEN /\ Log(Call("listAll", 0, <<>>, e))
                   /\ ReturnCleaned(CleanupResult(FALSE, "old image still in use", NoErr))
                   /\ UNCHANGED hostVars
              ELSE \E r \in CallOutcomes("imageRemove", Removable(old)) :
                     /\ calls' = calls \o <<Call("listAll", 0, <<>>, e),
                                            Call("imageRemove", 0, old, r)>>
                     /\ IF r # NoErr
                        THEN /\ ReturnCleaned(CleanupResult(FALSE, "failed to remove old image", r))
                             /\ UNCHANGED hostVars
                        ELSE /\ ReturnCleaned(CleanupResult(TRUE, "old image unused", NoErr))
                             /\ images' = images \ {old}
                             /\ localTag' = IF localTag.ID = old
                                            THEN [present |-> FALSE, ID |-> NoId]
                                            ELSE localTag
                             /\ UNCHANGED <<containers, registry, nextId>>
    /\ UNCHANGED_RUN

\* -------------------------------------------------------------------- Run
UNCHANGED_CYCLE ==
    UNCHANGED <<hostVars, cfg, loadVars, resolveVars, cycleVars, evalVars, calls, histVars>>

\* What an evaluation that returned o did to its container: the recreate lost
\* it (the create or the start failed after the remove), the rolling replace
\* failed at the stop of the old one, or it was updated.
What(o) ==
    IF o.err # NoErr /\ Head(o.err) \in {"create:", "start:"} THEN "lost"
    ELSE IF Len(o.err) >= 2 /\ o.err[1] = "rolling update:" /\ o.err[2] = "stop old:"
    THEN "stop old"
    ELSE IF o.updated THEN "updated"
    ELSE "none"

Events(os) ==
    {[name |-> os[i].name, id |-> os[i].id, what |-> What(os[i])] :
        i \in {j \in 1..Len(os) : What(os[j]) # "none"}}

\* The locals of runOnce and the record of its cycle end with it.
EndCycle ==
    /\ list' = <<>> /\ idx' = 1 /\ scanned' = 0 /\ updated' = 0 /\ failed' = 0
    /\ updatedRefs' = <<>> /\ failedRefs' = <<>>
    /\ cur' = NoCur /\ oldImageID' = NoId /\ newImageID' = NoId
    /\ calls' = <<>> /\ outcomes' = <<>> /\ sessionDone' = FALSE /\ notified' = <<>>
    /\ earlier' = earlier \cup Events(outcomes)
    /\ UNCHANGED <<imageRef, created, polls, pendingErr, listFailed>>

\* The check after runOnce (run.go:20-25, 35-38); the first one creates the
\* ticker.
RunCheck ==
    /\ pc = "check"
    /\ IF CtxErr # NoErr
       THEN pc' = "returned" /\ UNCHANGED ticker
       ELSE pc' = "select" /\ ticker' = TRUE
    /\ EndCycle
    /\ UNCHANGED <<cancelled, tickPending, cycleNo, cancelAt, lateCycles>>
    /\ UNCHANGED <<hostVars, cfg, loadVars, resolveVars>>

\* case <-ctx.Done() (run.go:30-32)
RunSelectDone ==
    /\ pc = "select"
    /\ cancelled
    /\ pc' = "returned"
    /\ UNCHANGED runVars
    /\ UNCHANGED_CYCLE

\* case <-t.C (run.go:33-34)
RunSelectTick ==
    /\ pc = "select"
    /\ tickPending
    /\ tickPending' = FALSE
    /\ cycleNo' = cycleNo + 1
    /\ lateCycles' = IF cancelled THEN lateCycles + 1 ELSE lateCycles
    /\ pc' = "list"
    /\ UNCHANGED <<cancelled, ticker, cancelAt>>
    /\ UNCHANGED_CYCLE

\* ------------------------------------------------------------ environment
InCycle == pc \notin {"check", "select", "returned"}

\* SIGINT or SIGTERM closes ctx.Done() (main.go:105).
Cancel ==
    /\ ~cancelled
    /\ pc # "returned"
    /\ cancelled' = TRUE
    /\ cancelAt' = IF pc = "healthSelect" THEN "health"
                   ELSE IF InCycle THEN "cycle"
                   ELSE IF pc = "select" THEN "idle" ELSE "check"
    /\ UNCHANGED <<pc, ticker, tickPending, cycleNo, lateCycles>>
    /\ UNCHANGED_CYCLE

\* The ticker puts a tick into t.C, which holds at most one.
TimerFire ==
    /\ ticker
    /\ pc # "returned"
    /\ ~tickPending
    /\ cycleNo < MaxCycles
    /\ tickPending' = TRUE
    /\ UNCHANGED <<pc, cancelled, ticker, cycleNo, cancelAt, lateCycles>>
    /\ UNCHANGED_CYCLE

Next ==
    \/ ListTargetContainers
    \/ InspectContainer
    \/ InspectOldImage
    \/ PullImage
    \/ InspectPulledImage
    \/ RecreateStop
    \/ RecreateRemove
    \/ RecreateCreate
    \/ RecreateStart
    \/ RollingCreate
    \/ RollingStart
    \/ RollingAbort
    \/ HealthInspect
    \/ HealthSelect
    \/ RollingStop
    \/ RollingRemove
    \/ RollingRename
    \/ Cleanup
    \/ Finish
    \/ RunCheck
    \/ RunSelectDone
    \/ RunSelectTick
    \/ Cancel
    \/ TimerFire

Spec == Init /\ [][Next]_vars

\* The steps of the goroutine that runs Run (run.go:16-41): every step but
\* the signal and the ticker.
Program ==
    \/ ListTargetContainers
    \/ InspectContainer
    \/ InspectOldImage
    \/ PullImage
    \/ InspectPulledImage
    \/ RecreateStop
    \/ RecreateRemove
    \/ RecreateCreate
    \/ RecreateStart
    \/ RollingCreate
    \/ RollingStart
    \/ RollingAbort
    \/ HealthInspect
    \/ HealthSelect
    \/ RollingStop
    \/ RollingRemove
    \/ RollingRename
    \/ Cleanup
    \/ Finish
    \/ RunCheck
    \/ RunSelectDone
    \/ RunSelectTick

\* Run when every engine call returns and the goroutine is scheduled: a step
\* of the goroutine that stays possible is taken. Nothing is assumed of the
\* signal or the ticker.
\* It starts on the hosts where "web" is alone, the registry serves a new
\* identity, and the cleanup and the notifier are on.
LiveHosts ==
    {h \in InitialHosts : h.others = {} /\ h.registry = IdNew /\ h.cleanup /\ h.notify}

LiveInit == InitOn(LiveHosts)

LiveSpec == LiveInit /\ [][Next]_vars /\ WF_vars(Program)

\* ------------------------------------------- the choice of the strategy
\* The host configurations of an inspected container: none, or one with
\* every combination of network mode, publish-all-ports and port bindings.
HostConfigs ==
    {NilHostConfig} \cup
    {[present |-> TRUE, NetworkMode |-> n, PublishAllPorts |-> a, PortBindings |-> b] :
        n \in {"bridge", "host"}, a \in BOOLEAN, b \in {0, 1}}

\* Label values, the empty one among them, and the keys of the selectors.
LabelValues == {<<>>, <<"true">>, <<"false">>}
LabelKeys == {RollingKey, EnableKey}

\* The label sets of a container: none, the rolling label with each value,
\* another label alone, and both.
LabelSets ==
    {NoLabels, EnableLabels, BothLabels} \cup
    {[k \in {RollingKey} |-> v] : v \in LabelValues}

\* The selectors --rolling-label can be given: "key", "key=value", "key=",
\* the empty one and one without a key.
KeyValue(k, v) == k \o <<"=">> \o v
Selectors ==
    LabelKeys \cup {KeyValue(k, v) : k \in LabelKeys, v \in LabelValues}
              \cup {<<>>, <<"=", "true">>}

\* Every variable the choice of the strategy does not read, at rest.
AtRest ==
    /\ containers = <<>> /\ localTag = [present |-> FALSE, ID |-> NoId]
    /\ images = {} /\ registry = NoId /\ nextId = 1
    /\ cancelled = FALSE /\ ticker = FALSE /\ tickPending = FALSE /\ cycleNo = 0
    /\ cancelAt = "never" /\ lateCycles = 0
    /\ list = <<>> /\ idx = 1 /\ scanned = 0 /\ updated = 0 /\ failed = 0
    /\ updatedRefs = <<>> /\ failedRefs = <<>>
    /\ oldImageID = NoId /\ newImageID = NoId
    /\ created = 0 /\ polls = 0 /\ pendingErr = NoErr
    /\ calls = <<>> /\ outcomes = <<>> /\ sessionDone = FALSE /\ notified = <<>>
    /\ listFailed = "no" /\ earlier = {}

NoCredentials ==
    /\ dockerConfig = NoFile /\ auths = NilIndex /\ loadErr = ReadErr
    /\ reg = <<>> /\ regAuth = NoAuth

\* updateContainerIfNeeded has inspected a container and found a new image
\* for it (part_003:17-56).
StrategyInit ==
    /\ \E hc \in HostConfigs, labels \in LabelSets, selector \in Selectors :
         /\ cur = [ID |-> 1, Name |-> <<"/", "web">>, Image |-> IdOld,
                   Config |-> [Image |-> Ref, Labels |-> labels, Healthcheck |-> FALSE],
                   HostConfig |-> hc]
         /\ cfg = [Cleanup |-> FALSE, LabelEnable |-> FALSE, Label |-> EnableSelector,
                   RollingLabel |-> selector, Notify |-> FALSE]
    /\ imageRef = Ref
    /\ pc = "strategy"
    /\ AtRest
    /\ NoCredentials

\* The choice between the two strategies (part_003:58-66).
ChooseStrategy ==
    /\ pc = "strategy"
    /\ pc' = Strategy(cur)
    /\ UNCHANGED <<hostVars, cfg, loadVars, resolveVars, runVars, cycleVars, evalVars, calls,
                   histVars>>

StrategyNext == ChooseStrategy

StrategySpec == StrategyInit /\ [][StrategyNext]_vars

\* ------------------------------------- loading and resolving credentials
GhcrHost == <<"ghcr", ".", "io">>
QuayHost == <<"quay", ".", "io">>
LocalRegistry == <<"localhost", ":", "5000">>

\* The accounts a config.json is written for: server, user and password.
\* "ghcr.io/" and "ghcr.io" are one registry under two spellings; the
\* account of the first has no password.
Accounts ==
    {[server |-> GhcrHost, user |-> <<"alice">>, pass |-> <<"pw">>],
     [server |-> <<"https://">> \o GhcrHost, user |-> <<"bob">>, pass |-> <<"pw">>],
     [server |-> <<"https://">> \o GhcrHost \o <<"/", "v1", "/">>,
      user |-> <<"carol">>, pass |-> <<"pw">>],
     [server |-> LegacyKey, user |-> <<"dave">>, pass |-> <<"pw", ":", "pw">>],
     [server |-> GhcrHost \o <<"/">>, user |-> <<"erin">>, pass |-> <<>>]}
Account(server) == CHOOSE a \in Accounts : a.server = server

\* An auth text that is not base64.
NotBase64 == <<"!!">>

\* The auth text of every server a config.json may name: base64 of
\* "user:pass" (of "user" alone without a password), an empty text for
\* quay.io and a text that is not base64 for localhost:5000.
AuthText(server) ==
    IF server = QuayHost THEN <<>>
    ELSE IF server = LocalRegistry THEN NotBase64
    ELSE IF Account(server).pass = <<>> THEN EncodeToString(Account(server).user)
    ELSE EncodeToString(Account(server).user \o <<":">> \o Account(server).pass)
Servers == {a.server : a \in Accounts} \cup {QuayHost, LocalRegistry}

\* The files --docker-config can name: none, one that is not JSON, and a
\* document with any set of the servers.
DockerConfigs ==
    {NoFile, [readable |-> TRUE, json |-> FALSE, Auths |-> <<>>]} \cup
    {[readable |-> TRUE, json |-> TRUE, Auths |-> [server \in S |-> AuthText(server)]] :
        S \in SUBSET Servers}

\* Image references: without a registry (with and without a tag, with a
\* namespace) and with one (a domain, localhost, a host with a port).
ImageRefs ==
    {Ref, <<"nginx">>, <<"library", "/", "nginx">>,
     GhcrHost \o <<"/", "org", "/", "app", ":", "v1">>,
     QuayHost \o <<"/", "app">>,
     <<"localhost", "/", "app">>,
     LocalRegistry \o <<"/", "app", ":", "v1">>}

\* main before it loads the credentials (main.go:139), with an image
\* reference the engine will resolve.
AuthInit ==
    /\ dockerConfig \in DockerConfigs
    /\ imageRef \in ImageRefs
    /\ auths = NilIndex /\ loadErr = NoErr /\ reg = <<>> /\ regAuth = NoAuth
    /\ cfg = [Cleanup |-> FALSE, LabelEnable |-> FALSE, Label |-> EnableSelector,
              RollingLabel |-> RollingSelector, Notify |-> FALSE]
    /\ cur = NoCur
    /\ pc = "load"
    /\ AtRest

UNCHANGED_ENGINE ==
    UNCHANGED <<hostVars, cfg, dockerConfig, runVars, cycleVars, evalVars, calls, histVars>>

\* main loads the credentials and goes on whatever the load returned
\* (main.go:139-142).
LoadDockerConfig ==
    /\ pc = "load"
    /\ \E l \in loadDockerConfigAuths(dockerConfig) :
         /\ auths' = l.index
         /\ loadErr' = l.err
    /\ pc' = "registry"
    /\ UNCHANGED resolveVars
    /\ UNCHANGED_ENGINE

\* reg := registryFromImageRef(imageRef) (auth.go:52)
ResolveRegistry ==
    /\ pc = "registry"
    /\ reg' = registryFromImageRef(imageRef)
    /\ pc' = "lookup"
    /\ UNCHANGED <<auths, loadErr, regAuth>>
    /\ UNCHANGED_ENGINE

\* The candidates and the lookup (auth.go:55-71).
ResolveAuth ==
    /\ pc = "lookup"
    /\ regAuth' = Lookup(auths, reg)
    /\ pc' = "resolved"
    /\ UNCHANGED <<auths, loadErr, reg>>
    /\ UNCHANGED_ENGINE

AuthNext ==
    \/ LoadDockerConfig
    \/ ResolveRegistry
    \/ ResolveAuth

AuthSpec == AuthInit /\ [][AuthNext]_vars

\* ================================================================ properties
\* Between two evaluations: the last evaluation has returned to runOnce and
\* no engine call of a later one has been made; calls is its log and the last
\* entry of outcomes what it returned.
AtReturn ==
    /\ outcomes # <<>>
    /\ pc \in {"inspect", "finish", "check"}

Last == outcomes[Len(outcomes)]

Under(name) == {id \in DOMAIN containers : containers[id].name = name}
RunningUnder(name) == {id \in Under(name) : containers[id].running}

CallIdx == 1..Len(calls)
Issued(ops, id) == {i \in CallIdx : calls[i].op \in ops /\ calls[i].id = id}
Succeeded(ops, id) == {i \in Issued(ops, id) : calls[i].err = NoErr}

\* The replacement the current log created: the id of its successful create.
Replacement ==
    IF \E i \in CallIdx : calls[i].op = "create" /\ calls[i].err = NoErr
    THEN calls[CHOOSE i \in CallIdx : calls[i].op = "create" /\ calls[i].err = NoErr].id
    ELSE 0

WasRolling == cur # NoCur /\ Strategy(cur) = "rollingCreate"
WasRecreate == cur # NoCur /\ Strategy(cur) = "recreateStop"

FailedPastRemoval ==
    /\ AtReturn
    /\ Last.err # NoErr
    /\ Succeeded({"remove"}, Last.id) # {}

\* C1 (as claimed): an attempt that fails after the old container has been
\* removed leaves exactly one container running under the original name.
C1_ExactlyOneRunning ==
    FailedPastRemoval => Cardinality(RunningUnder(Last.name)) = 1

\* C1 (amended): an attempt that fails after the old container has been
\* removed leaves no container running under the original name: at most one
\* container exists under it (the re-created one, not started), and after a
\* rolling replace the replacement is running under <name>.next.
C1_NoneRunningUnderName ==
    FailedPastRemoval =>
        /\ RunningUnder(Last.name) = {}
        /\ Cardinality(Under(Last.name)) <= 1
        /\ WasRolling => RunningUnder(Last.name \o <<".next">>) = {Replacement}

C1_Witness == FailedPastRemoval /\ WasRolling

\* C2: in a rolling replace every stop or remove of the original comes after
\* a successful create and start of the replacement and a health wait that
\* returned success; until that health wait has returned success the original
\* is running under its original name.
C2_OldUntouchedUntilHealthy ==
    WasRolling =>
        /\ \A i \in Issued({"stop", "remove", "forceRemove", "rename"}, cur.ID) :
             \E c, t, h \in 1..(i - 1) :
               /\ c < t /\ t < h
               /\ calls[c].op = "create" /\ calls[c].err = NoErr
               /\ calls[c].arg = TrimPrefix(cur.Name, "/") \o <<".next">>
               /\ calls[t].op = "start" /\ calls[t].id = calls[c].id /\ calls[t].err = NoErr
               /\ calls[h].op = "waitForHealthy" /\ calls[h].id = calls[c].id
               /\ calls[h].err = NoErr
        /\ Succeeded({"waitForHealthy"}, Replacement) = {} =>
             /\ cur.ID \in DOMAIN containers
             /\ containers[cur.ID].running
             /\ containers[cur.ID].name = TrimPrefix(cur.Name, "/")

C2_Witness == WasRolling /\ Succeeded({"stop"}, cur.ID) # {}

\* C3: a rolling replace whose start fails, or whose health wait returns an
\* error (unhealthy, timeout, inspect error), issues a force-remove on the
\* replacement, issues no stop, remove or rename on the original, and is
\* reported as a failure of that container.
RollingAborted ==
    /\ WasRolling
    /\ AtReturn
    /\ \E i \in CallIdx :
         /\ calls[i].op \in {"start", "waitForHealthy"}
         /\ calls[i].id = Replacement
         /\ calls[i].err # NoErr

C3_AbortRemovesReplacement ==
    RollingAborted =>
        /\ calls[Len(calls)].op = "forceRemove"
        /\ calls[Len(calls)].id = Replacement
        /\ Replacement # cur.ID
        /\ Issued({"stop", "remove", "rename", "forceRemove"}, cur.ID) = {}
        /\ Last.id = cur.ID /\ Last.err # NoErr /\ ~Last.updated
        /\ failed >= 1

C3_Witness ==
    /\ RollingAborted
    /\ \E i \in CallIdx : calls[i].op = "waitForHealthy" /\ calls[i].err = UnhealthyErr

\* C4: when container inspect, pull and pulled-image inspect all succeed, an
\* update strategy runs iff both identities are non-empty and unequal;
\* otherwise the evaluation reports no update, without error and without any
\* stop, remove, create, start or rename.
Decided ==
    /\ AtReturn
    /\ \E p, n \in CallIdx :
         /\ p < n
         /\ calls[p].op = "pull" /\ calls[p].err = NoErr
         /\ calls[n].op = "imageInspect" /\ calls[n].err = NoErr

StrategyCalls ==
    {i \in CallIdx :
        calls[i].op \in {"stop", "remove", "create", "start", "rename", "forceRemove"}}

C4_UpdateIffIdentitiesDiffer ==
    Decided =>
        /\ StrategyCalls # {} <=>
             (oldImageID # NoId /\ newImageID # NoId /\ oldImageID # newImageID)
        /\ StrategyCalls = {} => (Last.err = NoErr /\ ~Last.updated)

C4_Witness == Decided /\ oldImageID = NoId /\ newImageID = IdNew /\ StrategyCalls = {}

\* C5: the cleanup issues no image-remove for an identity that a container of
\* the host, running or stopped, managed or not, references; when the listing
\* shows such a container the cleanup returns removed=false, "old image still
\* in use" and no error.
C5_NoRemovalOfReferencedImage ==
    AtReturn =>
        /\ \A i \in CallIdx : calls[i].op = "imageRemove" =>
             \A c \in DOMAIN containers : containers[c].image # calls[i].arg
        /\ ( /\ Succeeded({"listAll"}, 0) # {}
             /\ \E c \in DOMAIN containers : containers[c].image = TrimSpace(oldImageID) )
           => Last.cleanup = [removed |-> FALSE, reason |-> "old image still in use",
                              err |-> NoErr]

C5_Witness ==
    /\ AtReturn
    /\ Last.cleanup.reason = "old image still in use"
    /\ \E c \in DOMAIN containers : ~containers[c].running /\ containers[c].image = oldImageID

\* C6: a cancellation that arrives while a cycle is in progress aborts
\* nothing: no engine call and no health wait of that cycle returns the
\* context's error, every listed container is evaluated before runOnce
\* returns, and Run then returns without waiting for the timer and without
\* starting a further cycle.
CanceledIn(err) == \E i \in 1..Len(err) : err[i] = "context canceled"

C6_CycleFinishesAfterSignal ==
    cancelAt \in {"cycle", "health"} =>
        /\ \A i \in CallIdx : ~CanceledIn(calls[i].err)
        /\ \A i \in 1..Len(outcomes) : ~CanceledIn(outcomes[i].err)
        /\ lateCycles = 0
        /\ pc = "check" =>
             \/ listFailed = "this"
             \/ sessionDone /\ Len(outcomes) = Len(list)
        /\ pc \in {"check", "returned"} \/ InCycle

C6_Witness ==
    /\ cancelAt = "health"
    /\ pc = "check"
    /\ Last.updated
    /\ Len(outcomes) = 2

\* C7 (as claimed): after a cancellation that arrives while Run waits for the
\* timer no cycle is started, also when a tick is ready at the same moment.
C7_NoCycleAfterIdleSignal == cancelAt = "idle" => lateCycles = 0

\* C8: the recreate strategy issues stop(old), remove(old), create(same name),
\* start(new) in this order, each only after the one before succeeded; the
\* first failure ends the attempt as a failure; after a failed stop the
\* original is still running.
StrategyOps == {"stop", "remove", "create", "start", "rename", "forceRemove"}
RecreateLog == SelectSeq(calls, LAMBDA c : c.op \in StrategyOps)

RecreateOrder == <<"stop", "remove", "create", "start">>

C8_RecreateOrder ==
    WasRecreate =>
        /\ Len(RecreateLog) <= 4
        /\ \A k \in 1..Len(RecreateLog) :
             /\ RecreateLog[k].op = RecreateOrder[k]
             /\ k < Len(RecreateLog) => RecreateLog[k].err = NoErr
             /\ k <= 2 => RecreateLog[k].id = cur.ID
             /\ k = 3 => RecreateLog[k].arg = TrimPrefix(cur.Name, "/")
             /\ k = 4 => RecreateLog[k].id = RecreateLog[3].id
        /\ (Len(RecreateLog) > 0 /\ RecreateLog[Len(RecreateLog)].err # NoErr) =>
             /\ AtReturn
             /\ Last.id = cur.ID /\ Last.err # NoErr /\ ~Last.updated
        /\ (Len(RecreateLog) = 1 /\ RecreateLog[1].err # NoErr) =>
             /\ cur.ID \in DOMAIN containers
             /\ containers[cur.ID].running

C8_Witness ==
    /\ WasRecreate
    /\ Len(RecreateLog) = 4
    /\ RecreateLog[4].err = NoErr

\* C9: a failure in one evaluation does not stop the cycle: when the cycle
\* ends every listed container has been evaluated exactly once, in the order
\* of the listing, each is counted as exactly one of updated, failed or
\* unchanged, scanned is the number listed and updated + failed <= scanned.
Count(P(_)) == Cardinality({i \in 1..Len(outcomes) : P(outcomes[i])})
IsUpdated(o) == o.updated /\ o.err = NoErr
IsFailed(o) == o.err # NoErr
IsUnchanged(o) == ~o.updated /\ o.err = NoErr

C9_EveryContainerEvaluatedOnce ==
    /\ InCycle /\ pc # "list" => Len(outcomes) = idx - 1
    /\ sessionDone =>
         /\ Len(outcomes) = Len(list)
         /\ \A i \in 1..Len(list) : outcomes[i].id = list[i].ID
         /\ scanned = Len(list)
         /\ updated = Count(IsUpdated)
         /\ failed = Count(IsFailed)
         /\ Count(IsUpdated) + Count(IsFailed) + Count(IsUnchanged) = scanned
         /\ updated + failed <= scanned

C9_Witness ==
    /\ sessionDone
    /\ Len(list) = 2
    /\ IsFailed(outcomes[1])
    /\ IsUpdated(outcomes[2])

\* C10: a failed listing ends the cycle at once: no container is evaluated,
\* no engine call follows, no summary is logged and no notification is sent;
\* Run does not return because of it, and the cycle the next tick starts is
\* a normal one.
C10_ListErrorEndsCycleOnly ==
    /\ listFailed = "this" =>
         /\ pc \in {"check", "select", "returned", "list"}
         /\ pc = "check" => (Len(calls) = 1 /\ calls[1].op = "list" /\ calls[1].err # NoErr)
         /\ outcomes = <<>>
         /\ ~sessionDone
         /\ notified = <<>>
    /\ pc = "returned" => cancelled
    /\ (listFailed = "prev" /\ pc = "check") =>
         /\ sessionDone
         /\ Len(outcomes) = Len(list)

C10_Witness ==
    /\ listFailed = "prev"
    /\ sessionDone
    /\ updated = 1

\* C11: every failed evaluation is counted in failed, whether its error is
\* transient or not, and the failed list of the notification holds exactly
\* the evaluations whose error isTransientError reports as non-transient, in
\* the order of their evaluation, each with its name and its error.
IsReported(o) == o.err # NoErr /\ ~isTransientError(o.err)
Reported == SelectSeq(outcomes, IsReported)

C11_FailedCountedTransientUnlisted ==
    (AtReturn \/ sessionDone) =>
        /\ failed = Count(IsFailed)
        /\ failedRefs = [i \in 1..Len(Reported) |->
                           [Name |-> Reported[i].name, Info |-> Reported[i].err]]

\* A cycle with a transient and a non-transient failure.
C11_Witness ==
    /\ sessionDone
    /\ failed = 2
    /\ Len(failedRefs) = 1
    /\ isTransientError(outcomes[1].err)

Chosen == pc \in {"rollingCreate", "recreateStop"}
HostNetwork == cur.HostConfig.present /\ cur.HostConfig.NetworkMode = "host"
PublishAll == cur.HostConfig.present /\ cur.HostConfig.PublishAllPorts
PortBindings == cur.HostConfig.present /\ cur.HostConfig.PortBindings > 0
LabelMatches == hasRollingLabel(cur, cfg.RollingLabel)

C13_RollingIffAllFour ==
    Chosen =>
        /\ pc = "rollingCreate" <=>
             ~HostNetwork /\ ~PublishAll /\ ~PortBindings /\ LabelMatches
        /\ pc = "recreateStop" <=>
             HostNetwork \/ PublishAll \/ PortBindings \/ ~LabelMatches
        /\ ~cur.HostConfig.present => (pc = "rollingCreate" <=> LabelMatches)

\* Publish-all-ports alone keeps a labelled container from the rolling update.
C13_Witness ==
    /\ pc = "recreateStop"
    /\ PublishAll /\ ~HostNetwork /\ ~PortBindings /\ LabelMatches

\* C14 as stated: a selector "key" matches iff the container has the label
\* key, with any value; a selector "key=value" matches iff the container has
\* the label key with exactly that value; a container without labels never
\* matches.  (Read off a container without host configuration, whose
\* strategy is the rolling one iff the selector matches.)
Matched == pc = "rollingCreate"
Labels == cur.Config.Labels
Selected == Chosen /\ ~cur.HostConfig.present

C14_SelectorExactValue ==
    Selected =>
        /\ \A k \in LabelKeys :
             /\ cfg.RollingLabel = k => (Matched <=> k \in DOMAIN Labels)
             /\ \A v \in LabelValues :
                  cfg.RollingLabel = KeyValue(k, v) =>
                      (Matched <=> k \in DOMAIN Labels /\ Labels[k] = v)
        /\ DOMAIN Labels = {} => ~Matched

\* C14, amended: a selector "key=value" with a non-empty value matches iff
\* the container has the label key with exactly that value; a selector
\* "key=" with an empty value matches like "key", whatever the label's value.
C14_SelectorMatches ==
    Selected =>
        /\ \A k \in LabelKeys :
             /\ cfg.RollingLabel \in {k, KeyValue(k, <<>>)} =>
                    (Matched <=> k \in DOMAIN Labels)
             /\ \A v \in LabelValues \ {<<>>} :
                  cfg.RollingLabel = KeyValue(k, v) =>
                      (Matched <=> k \in DOMAIN Labels /\ Labels[k] = v)
        /\ DOMAIN Labels = {} => ~Matched

\* The selector "key=" met a label with a value and matched.
C14_Witness ==
    /\ Selected
    /\ cfg.RollingLabel = KeyValue(RollingKey, <<>>)
    /\ RollingKey \in DOMAIN Labels /\ Labels[RollingKey] = <<"true">>
    /\ Matched

\* C15: one cycle at a time and one container at a time.  A cycle begins
\* only from Run's wait, when the cycle before it has returned and left
\* nothing behind; while a container is evaluated every container listed
\* before it has returned and none after it has been touched; the calls
\* issued since the last return all concern the container under evaluation
\* (or its replacement), and when the first call for the next container is
\* due, the update steps and the cleanup of the previous one are in the log.
Evaluating == InCycle /\ pc \notin {"list", "inspect", "finish"}
ConcernsOnly(id) ==
    \A i \in CallIdx : calls[i].id \in {0, id} \/ (Replacement # 0 /\ calls[i].id = Replacement)

OneAtATime ==
    /\ pc \in {"select", "list"} =>
          outcomes = <<>> /\ calls = <<>> /\ list = <<>> /\ ~sessionDone
    /\ (InCycle /\ pc \notin {"list", "finish"}) =>
          idx \in 1..Len(list) /\ Len(outcomes) = idx - 1
    /\ Evaluating =>
          /\ calls # <<>>
          /\ calls[1].op = "inspect" /\ calls[1].id = list[idx].ID
          /\ ConcernsOnly(list[idx].ID)
    /\ AtReturn =>
          /\ calls[1].id = Last.id
          /\ ConcernsOnly(Last.id)
          /\ (Last.updated /\ cfg.Cleanup) => Last.cleanup # NoCleanup

CycleStart == pc # "list" /\ pc' = "list"
EvaluationStart == pc = "inspect" /\ pc' # "inspect"

C15_OneCycleOneContainer ==
    /\ []OneAtATime
    /\ [][CycleStart => pc = "select" /\ ~sessionDone]_vars
    /\ [][EvaluationStart => Len(outcomes) = idx - 1 /\ calls'[1].id = list[idx].ID]_vars

\* The second container of a listing is being evaluated after the first was
\* updated and its old image cleaned up.
C15_Witness ==
    /\ Evaluating
    /\ idx = 2
    /\ outcomes[1].updated /\ outcomes[1].cleanup # NoCleanup

\* C16: Run starts its first cycle on entry, before the ticker exists, and
\* waits on the timer only after that cycle has returned; every later cycle
\* starts from the wait by taking the one tick the channel holds, and nothing
\* else starts a cycle.
FirstCycle == cycleNo = 0 /\ InCycle

FirstCycleBeforeTimer ==
    /\ FirstCycle => ~ticker /\ ~tickPending
    /\ pc = "select" => ticker
    /\ tickPending => ticker

C16_FirstCycleThenOnePerTick ==
    /\ []FirstCycleBeforeTimer
    /\ [][(pc # "select" /\ pc' = "select") => pc = "check"]_vars
    /\ [][CycleStart <=> cycleNo' = cycleNo + 1]_vars
    /\ [][CycleStart => pc = "select" /\ tickPending /\ ~tickPending']_vars

\* A second cycle is running: the first returned, a tick was taken.
C16_Witness ==
    /\ cycleNo = 1
    /\ pc = "inspect"
    /\ ~tickPending

\* C17: the lookup tries the bare host, https://host, https://host/v1/ and
\* the Docker Hub legacy key in this order and returns the credential of the
\* first one the index holds; a store with only https://index.docker.io/v1/
\* resolves nginx:latest; with no candidate in the index nothing is found.
\* (The index holds its keys without trailing slashes.)
ExpectedKeys ==
    <<reg,
      <<"https://">> \o reg,
      <<"https://">> \o reg \o <<"/", "v1">>,
      <<"https://", "index", ".", "docker", ".", "io", "/", "v1">>>>
Present(i) == ExpectedKeys[i] \in DOMAIN auths.entries
OnlyLegacyStored ==
    /\ dockerConfig.readable /\ dockerConfig.json
    /\ DOMAIN dockerConfig.Auths = {LegacyKey}

C17_FirstCandidateWins ==
    pc = "resolved" =>
        /\ \A i \in 1..4 :
             (Present(i) /\ \A j \in 1..(i - 1) : ~Present(j)) =>
                 regAuth = [enc |-> Encode(auths.entries[ExpectedKeys[i]]), found |-> TRUE]
        /\ (\A i \in 1..4 : ~Present(i)) => regAuth = NoAuth
        /\ (OnlyLegacyStored /\ imageRef = Ref) => regAuth.found

\* The index holds the second, third and fourth candidate of ghcr.io but not
\* the first.
C17_Witness ==
    /\ pc = "resolved"
    /\ reg = GhcrHost
    /\ ~Present(1) /\ Present(2) /\ Present(3) /\ Present(4)
    /\ regAuth.found

\* C18: an image reference of a single segment, without a slash, has the
\* default registry index.docker.io as its registry host.
C18_NoRegistryMeansDockerHub ==
    (pc \in {"lookup", "resolved"} /\ ~Contains(imageRef, "/")) => reg = DockerHubHost

\* C19: a load of a readable JSON document returns no error and an index with
\* every entry whose auth is neither empty nor invalid base64, under its
\* normalised server, and with nothing else; a missing or unparsable file
\* gives an error and no index, main goes on, and the lookup finds nothing.
Skipped ==
    {server \in DOMAIN dockerConfig.Auths : dockerConfig.Auths[server] \in {<<>>, NotBase64}}
Others == DOMAIN dockerConfig.Auths \ Skipped
Stored(server) ==
    [Username |-> Account(server).user, Password |-> Account(server).pass,
     ServerAddress |-> server]

C19_LoadSkipsBadEntries ==
    pc # "load" =>
        /\ (dockerConfig.readable /\ dockerConfig.json) =>
             /\ loadErr = NoErr
             /\ ~auths.isNil
             /\ \A server \in Others : normalizeRegistryKey(server) \in DOMAIN auths.entries
             /\ \A k \in DOMAIN auths.entries :
                  \E server \in Others :
                     normalizeRegistryKey(server) = k /\ auths.entries[k] = Stored(server)
        /\ ~(dockerConfig.readable /\ dockerConfig.json) =>
             /\ loadErr # NoErr
             /\ auths = NilIndex
             /\ pc = "resolved" => regAuth = NoAuth

\* A document with an empty auth, an invalid one and a good one was loaded
\* and a credential resolved from it.
C19_Witness ==
    /\ pc = "resolved"
    /\ {QuayHost, LocalRegistry, LegacyKey} \subseteq DOMAIN dockerConfig.Auths
    /\ Skipped = {QuayHost, LocalRegistry}
    /\ regAuth.found

\* C20: the health wait of a replacement that declares a health check goes
\* on polling while the polls read a status that is neither healthy nor
\* unhealthy; the poll that reads healthy ends the wait with success; the
\* poll that reads unhealthy ends it at once with the unhealthy error, not
\* the timeout; and a wait all of whose polls succeeded without reading a
\* final status ends with the timeout error.
HealthChecked == Replacement # 0 /\ cur.Config.Healthcheck
WaitIdx == {i \in CallIdx : calls[i].op = "waitForHealthy"}
PollIdx ==
    {i \in CallIdx : calls[i].op = "inspect" /\ calls[i].id = Replacement /\ calls[i].arg # <<>>}
Read(i) == calls[i].arg[1]
WaitReturned(i, err) == calls[i] = Call("waitForHealthy", Replacement, <<>>, err)

C20_HealthWaitEnds ==
    HealthChecked =>
        /\ Cardinality(WaitIdx) <= 1
        /\ pc = "healthSelect" =>
             /\ WaitIdx = {}
             /\ Cardinality(PollIdx) = polls
             /\ \A i \in PollIdx : Read(i) = "starting"
        /\ \A i \in PollIdx :
             /\ Read(i) = "healthy" => WaitReturned(i + 1, NoErr)
             /\ Read(i) = "unhealthy" => WaitReturned(i + 1, UnhealthyErr)
             /\ Read(i) = "starting" =>
                  \/ i = Len(calls)
                  \/ calls[i + 1].op = "inspect" /\ calls[i + 1].id = Replacement
                  \/ WaitReturned(i + 1, TimeoutErr)
        /\ \A w \in WaitIdx :
             /\ calls[w].err = TimeoutErr => \A i \in PollIdx : Read(i) = "starting"
             /\ (calls[w - 1].err = NoErr /\ \A i \in PollIdx : Read(i) = "starting") =>
                    calls[w].err = TimeoutErr

\* The second poll read unhealthy and the wait ended with that error.
C20_Witness ==
    /\ HealthChecked
    /\ Cardinality(PollIdx) = 2
    /\ \E i \in PollIdx : Read(i) = "starting"
    /\ \E i \in PollIdx : Read(i) = "unhealthy" /\ WaitReturned(i + 1, UnhealthyErr)
    /\ pc = "rollingAbort"

\* C21: the health wait of a replacement that declares no health check makes
\* its one inspect and returns what the inspect returned, success when it
\* succeeded: it never enters the loop, takes no poll and no timeout, and
\* after its success the next call of the rolling replace is the stop of the
\* old container.
NoHealthcheck == WasRolling /\ Replacement # 0 /\ ~cur.Config.Healthcheck

C21_NoHealthcheckNoWait ==
    NoHealthcheck =>
        /\ pc # "healthSelect" /\ polls = 0
        /\ PollIdx = {}
        /\ \A w \in WaitIdx :
             /\ calls[w - 1] = Call("inspect", Replacement, <<>>, calls[w].err)
             /\ calls[w - 2].op = "start"
             /\ calls[w].err \notin {TimeoutErr, UnhealthyErr}
             /\ calls[w].err = NoErr =>
                  IF w = Len(calls) THEN pc = "rollingStop"
                  ELSE calls[w + 1].op = "stop" /\ calls[w + 1].id = cur.ID

\* The wait has returned success and the stop of the old container is due.
C21_Witness ==
    /\ NoHealthcheck
    /\ pc = "rollingStop"
    /\ WaitReturned(Len(calls), NoErr)

\* C22: a rolling replace of container N all of whose calls succeed issues
\* create(N.next), start, the health wait, stop(old), remove(old) and
\* rename(N.next to N), in this order and nothing else, each step due only
\* when the ones before it are in the log; when it is done exactly one
\* container is named N, it is the replacement, it runs the new image, the
\* old container is gone and no container is named N.next.
AllSucceeded == \A i \in CallIdx : calls[i].err = NoErr
RollingLog == SelectSeq(calls, LAMBDA c : c.op \in StrategyOps \cup {"waitForHealthy"})
OriginalName == TrimPrefix(cur.Name, "/")

RollingStep(k, c) ==
    CASE k = 1 -> c.op = "create" /\ c.arg = OriginalName \o <<".next">> /\ c.id = Replacement
      [] k = 2 -> c.op = "start" /\ c.id = Replacement
      [] k = 3 -> c.op = "waitForHealthy" /\ c.id = Replacement
      [] k = 4 -> c.op = "stop" /\ c.id = cur.ID
      [] k = 5 -> c.op = "remove" /\ c.id = cur.ID
      [] k = 6 -> c.op = "rename" /\ c.id = Replacement /\ c.arg = OriginalName
      [] OTHER -> FALSE

RollingDone == pc = "cleanup" \/ (AtReturn /\ Last.updated)

C22_RollingHappyPath ==
    (WasRolling /\ AllSucceeded) =>
        /\ \A k \in 1..Len(RollingLog) : RollingStep(k, RollingLog[k])
        /\ pc = "rollingStart" => Len(RollingLog) = 1
        /\ pc = "rollingStop" => Len(RollingLog) = 3
        /\ pc = "rollingRemove" => Len(RollingLog) = 4
        /\ pc = "rollingRename" => Len(RollingLog) = 5
        /\ RollingDone =>
             /\ Len(RollingLog) = 6
             /\ Replacement # cur.ID
             /\ Under(OriginalName) = {Replacement}
             /\ containers[Replacement].running
             /\ containers[Replacement].image = newImageID
             /\ newImageID # oldImageID
             /\ cur.ID \notin DOMAIN containers
             /\ Under(OriginalName \o <<".next">>) = {}

\* A rolling replace with a health check has gone through without an error.
C22_Witness ==
    /\ WasRolling /\ AllSucceeded
    /\ AtReturn /\ Last.updated
    /\ cur.Config.Healthcheck
    /\ PollIdx # {}

\* C23: a cycle over a single container that is not eligible for the rolling
\* replace, whose pulled identity differs from its own, with cleanup enabled,
\* no other container on the old image and every call successful: the
\* container is stopped, removed, created again under its name and started,
\* then the containers are listed and the old image is removed; the summary
\* is scanned = 1, updated = 1, failed = 0.
UpdateLog == SelectSeq(calls, LAMBDA c : c.op \in StrategyOps \cup {"listAll", "imageRemove"})

RecreatedAlone ==
    /\ sessionDone
    /\ Len(list) = 1
    /\ WasRecreate
    /\ cfg.Cleanup
    /\ AllSucceeded
    /\ oldImageID # NoId /\ newImageID # NoId /\ oldImageID # newImageID
    /\ \A c \in DOMAIN containers : containers[c].image # oldImageID

C23_RecreateWithCleanup ==
    RecreatedAlone =>
        /\ Len(UpdateLog) = 6
        /\ UpdateLog[1].op = "stop" /\ UpdateLog[1].id = list[1].ID
        /\ UpdateLog[2].op = "remove" /\ UpdateLog[2].id = list[1].ID
        /\ UpdateLog[3].op = "create" /\ UpdateLog[3].arg = OriginalName
        /\ UpdateLog[4].op = "start" /\ UpdateLog[4].id = UpdateLog[3].id
        /\ UpdateLog[5].op = "listAll"
        /\ UpdateLog[6].op = "imageRemove" /\ UpdateLog[6].arg = oldImageID
        /\ Under(OriginalName) = {UpdateLog[3].id}
        /\ containers[UpdateLog[3].id].running
        /\ containers[UpdateLog[3].id].image = newImageID
        /\ oldImageID \notin images
        /\ scanned = 1 /\ updated = 1 /\ failed = 0

C23_Witness ==
    /\ RecreatedAlone
    /\ Last.cleanup.removed
    /\ updatedRefs = <<[Name |-> <<"web">>, Info |-> shortID(IdNew)]>>

\* C24: an image removal is issued only with cleanup enabled and only after
\* the update strategy of the same evaluation has succeeded; it names the
\* identity the container had before the update, never the pulled one; no
\* image removal is issued for a container left unchanged or whose update
\* failed.
ImageRemovals == {i \in CallIdx : calls[i].op = "imageRemove"}
StrategyEnd == IF WasRolling THEN "rename" ELSE "start"
StrategySucceededBefore(i) ==
    /\ \E j \in 1..(i - 1) : calls[j].op = StrategyEnd /\ calls[j].err = NoErr
    /\ \A j \in 1..(i - 1) :
         calls[j].op \in StrategyOps \cup {"waitForHealthy"} => calls[j].err = NoErr

C24_ImageRemovalOnlyAfterUpdate ==
    /\ \A i \in ImageRemovals :
         /\ cfg.Cleanup
         /\ StrategySucceededBefore(i)
         /\ calls[i].arg = TrimSpace(oldImageID)
         /\ calls[i].arg # NoId
         /\ calls[i].arg # newImageID
         /\ i = Len(calls)
    /\ (AtReturn /\ ~IsUpdated(Last)) => ImageRemovals = {}
    /\ ~cfg.Cleanup => pc # "cleanup"

C24_Witness ==
    /\ ImageRemovals # {}
    /\ WasRolling
    /\ AtReturn /\ IsUpdated(Last)
    /\ oldImageID \notin images /\ newImageID \in images

\* C25: a failure inside the cleanup (the listing fails or the image removal
\* fails) never changes the outcome of the container: it is returned as
\* updated with no error, counted in updated and not in failed, and the loop
\* goes on to the next container.
CleanupFailed == AtReturn /\ Last.cleanup.err # NoErr

C25_CleanupFailureKeepsUpdated ==
    CleanupFailed =>
        /\ Last.updated /\ Last.err = NoErr
        /\ calls[Len(calls)].op \in {"listAll", "imageRemove"}
        /\ calls[Len(calls)].err # NoErr
        /\ updated = Count(IsUpdated) /\ updated >= 1
        /\ failed = Count(IsFailed)
        /\ updatedRefs[Len(updatedRefs)].Name = Last.name
        /\ \A i \in 1..Len(failedRefs) : failedRefs[i].Name # Last.name
        /\ pc = "inspect" <=> (~sessionDone /\ idx <= Len(list))
        /\ oldImageID \in images

C25_Witness ==
    /\ CleanupFailed
    /\ calls[Len(calls)].op = "listAll"
    /\ pc = "inspect"
    /\ failed = 0

\* C26: when the stop of the old container, its removal, or the rename of the
\* replacement fails in a rolling replace, the replace returns the failure at
\* that step: the failed call is the last engine call of the attempt and was
\* issued once, the replacement is neither removed nor renamed, and the
\* container is counted in failed, not in updated.
TailFailures ==
    {i \in CallIdx :
       /\ calls[i].err # NoErr
       /\ \/ calls[i].op \in {"stop", "remove"} /\ calls[i].id = cur.ID
          \/ calls[i].op = "rename"}
TailPrefix(op) ==
    CASE op = "stop" -> "stop old:"
      [] op = "remove" -> "remove old:"
      [] OTHER -> "rename:"

C26_TailFailureReturnsAtOnce ==
    WasRolling =>
        \A i \in TailFailures :
          /\ i = Len(calls)
          /\ Cardinality({j \in CallIdx : calls[j].op = calls[i].op}) = 1
          /\ \A j \in CallIdx : calls[j].op # "forceRemove"
          /\ AtReturn
          /\ ~Last.updated
          /\ Last.err = RollingErr(Wrap(TailPrefix(calls[i].op), calls[i].err))
          /\ Replacement \in DOMAIN containers
          /\ containers[Replacement].name = OriginalName \o <<".next">>
          /\ containers[Replacement].running
          /\ calls[i].op = "rename" <=> cur.ID \notin DOMAIN containers
          /\ Under(OriginalName) \subseteq {cur.ID}
          /\ failed = Count(IsFailed) /\ failed >= 1
          /\ updated = Count(IsUpdated)
          /\ \A k \in 1..Len(updatedRefs) : updatedRefs[k].Name # Last.name

C26_Witness ==
    /\ WasRolling
    /\ \E i \in TailFailures : calls[i].op = "remove"
    /\ ~containers[cur.ID].running

\* C27: a failure of the decision phase (the container inspect fails, the
\* image reference is empty, the pull fails, the inspect of the pulled image
\* fails) ends the evaluation of that container as failed with no stop,
\* remove, create, start, rename or force-remove and no image removal; an
\* empty image reference fails before any pull, and a failed pull is the last
\* call of the evaluation, so the pulled image is not inspected.
EmptyImageErr == <<"container has empty Config.Image">>
DecisionPrefixes == {"inspect container:", "pull:", "inspect pulled image:"}
DecisionFailed ==
    /\ AtReturn
    /\ Last.err # NoErr
    /\ Last.err = EmptyImageErr \/ Head(Last.err) \in DecisionPrefixes
Ops == [i \in CallIdx |-> calls[i].op]

C27_DecisionFailureTouchesNothing ==
    /\ DecisionFailed =>
         /\ StrategyCalls = {}
         /\ \A i \in CallIdx : calls[i].op \notin {"waitForHealthy", "listAll", "imageRemove"}
         /\ ~Last.updated
         /\ failed = Count(IsFailed) /\ updated = Count(IsUpdated)
         /\ calls[Len(calls)].err # NoErr <=> Last.err # EmptyImageErr
         /\ Head(Last.err) = "inspect container:" => Ops = <<"inspect">>
         /\ Last.err = EmptyImageErr => Ops = <<"inspect">>
         /\ Head(Last.err) = "pull:" => calls[Len(calls)].op = "pull"
         /\ Head(Last.err) = "inspect pulled image:" =>
              /\ calls[Len(calls)].op = "imageInspect"
              /\ calls[Len(calls) - 1].op = "pull" /\ calls[Len(calls) - 1].err = NoErr
    /\ \A i \in CallIdx : calls[i].op = "pull" =>
         /\ calls[i].arg # NoRef
         /\ calls[i].err # NoErr =>
              /\ i = Len(calls)
              /\ AtReturn /\ Last.err = Wrap("pull:", calls[i].err)

C27_Witness ==
    /\ DecisionFailed
    /\ Last.err = EmptyImageErr
    /\ Ops = <<"inspect">>
    /\ failed = 1

\* C28: every stop, remove, start, rename and force-remove of an evaluation
\* names the container being evaluated (the id the listing gave) or the
\* replacement created in that evaluation; no step removes or changes any
\* other container, and the only container a step adds is the replacement.
Evaluated == IF idx \in 1..Len(list) THEN list[idx].ID ELSE 0
TargetedOps == {"stop", "remove", "start", "rename", "forceRemove"}

OnlyOwnTargets ==
    \A i \in CallIdx : calls[i].op \in TargetedOps =>
        /\ calls[1].op = "inspect"
        /\ \E k \in 1..Len(list) : list[k].ID = calls[1].id
        /\ calls[i].id \in {calls[1].id, Replacement}
        /\ calls[i].id # 0

OthersKept ==
    /\ \A c \in DOMAIN containers :
         c \notin {Evaluated, created} =>
             c \in DOMAIN containers' /\ containers'[c] = containers[c]
    /\ DOMAIN containers' \ DOMAIN containers \subseteq {created'}
    /\ containers' # containers => calls' # calls /\ Evaluated # 0

C28_OthersUntouched == []OnlyOwnTargets /\ [][OthersKept]_vars

C28_Witness ==
    /\ AtReturn /\ Last.updated
    /\ Len(list) = 2 /\ Len(outcomes) = 2
    /\ outcomes[1].updated
    /\ 3 \notin DOMAIN containers
    /\ Cardinality(DOMAIN containers) = 2

\* C29: when every engine call returns, every cycle ends (the health wait
\* ends also when the health it reads is never healthy or unhealthy), and
\* once the cancellation is signalled Run returns.
C29_CycleAndRunTerminate ==
    /\ InCycle ~> ~InCycle
    /\ cancelled ~> (pc = "returned")

C29_Witness ==
    /\ cancelled /\ pc = "check"
    /\ Cardinality(PollIdx) = MaxPolls
    /\ \A i \in PollIdx : calls[i].arg = <<"starting">>
    /\ \E w \in WaitIdx : calls[w].err = TimeoutErr

\* C30: a rolling replace that was aborted because the health wait timed out
\* is counted in failed and left out of the failed list of the notification,
\* its error being classified transient; when it is the only event of the
\* cycle, no notification is sent.
HealthTimeoutErr == RollingErr(Wrap("health check:", TimeoutErr))
TimedOut(o) == o.err = HealthTimeoutErr

Lost == {e \in earlier : e.what = "lost"}
Listed(name) == \E k \in 1..Len(list) : containerRefFromSummary(list[k]).Name = name

C31_LostNameStaysDown ==
    \A e \in Lost :
        /\ RunningUnder(e.name) = {}
        /\ Cardinality(Under(e.name)) <= 1
        /\ e.id \notin DOMAIN containers
        /\ ~Listed(e.name)
        /\ \A i \in 1..Len(outcomes) : outcomes[i].name # e.name
        /\ \A i \in CallIdx :
             /\ calls[i].op = "create" => calls[i].arg # e.name
             /\ (calls[i].op = "start" /\ calls[i].id \in DOMAIN containers) =>
                    containers[calls[i].id].name # e.name

C31_Witness ==
    /\ \E e \in Lost : Under(e.name) # {}
    /\ sessionDone
    /\ scanned = 1
    /\ \E i \in CallIdx : calls[i].op = "start" /\ calls[i].err = NoErr

\* C32: after a rolling replace that failed at the stop of the old container,
\* the original still runs under its name and the replacement under
\* <name>.next; in every later cycle the rolling attempt for the original
\* fails at the create, which is its only call: no stop or remove of the
\* original is issued and the replacement is never renamed.
StopOldFailed == {e \in earlier : e.what = "stop old"}
NextName(name) == name \o <<".next">>
EvaluationOf(id) == calls # <<>> /\ calls[1].op = "inspect" /\ calls[1].id = id

C32_LeftoverBlocksRetry ==
    \A e \in StopOldFailed :
        /\ Under(e.name) = {e.id}
        /\ containers[e.id].running
        /\ Cardinality(Under(NextName(e.name))) = 1
        /\ RunningUnder(NextName(e.name)) = Under(NextName(e.name))
        /\ \A i \in CallIdx :
             /\ calls[i].op \in {"stop", "remove", "forceRemove"} => calls[i].id # e.id
             /\ calls[i].op = "rename" => calls[i].arg # e.name
        /\ EvaluationOf(e.id) =>
             /\ \A i \in CallIdx : calls[i].op # "waitForHealthy"
             /\ \A i \in StrategyCalls :
                  /\ calls[i] = Call("create", 0, NextName(e.name), calls[i].err)
                  /\ calls[i].err # NoErr
                  /\ i = Len(calls)
                  /\ AtReturn
                  /\ Last.err = RollingErr(Wrap("create:", calls[i].err))
                  /\ ~Last.updated

C32_Witness ==
    /\ \E e \in StopOldFailed :
         /\ EvaluationOf(e.id)
         /\ AtReturn /\ Last.id = e.id
         /\ Last.err = RollingErr(Wrap("create:", ConflictErr))
    /\ newImageID # oldImageID /\ newImageID # NoId

\* C33: in a cycle after one that updated a container (by either strategy),
\* the evaluation of the container of that name, when all its engine calls
\* succeed, finds the recorded identity equal to the pulled one: it issues
\* no stop, remove, create, start or rename and no image removal, and
\* returns "no update".
UpdatedEarlier == {e \in earlier : e.what = "updated"}
Reevaluated(e) == cur # NoCur /\ OriginalName = e.name /\ AllSucceeded

C33_NoUpdateAfterUpdate ==
    \A e \in UpdatedEarlier :
        Reevaluated(e) =>
            /\ cur.ID # e.id
            /\ cur.Image = registry
            /\ StrategyCalls = {}
            /\ \A i \in CallIdx : calls[i].op \notin {"waitForHealthy", "listAll", "imageRemove"}
            /\ pc \in {"pull", "inspectNew"} \/ AtReturn
            /\ AtReturn =>
                 /\ Last.name = e.name
                 /\ ~Last.updated /\ Last.err = NoErr
                 /\ newImageID = cur.Image
                 /\ \A k \in 1..Len(updatedRefs) : updatedRefs[k].Name # e.name

C33_Witness ==
    /\ \E e \in UpdatedEarlier : Reevaluated(e)
    /\ AtReturn
    /\ WasRolling
    /\ Len(calls) = 3
    /\ sessionDone /\ updated = 0 /\ failed = 0

\* C34: when the two containers of a cycle were listed with the same image
\* and both are updated with the cleanup enabled, the cleanup after the first
\* update issues no image removal and leaves the old image in the store (the
\* second container still references it); the cleanup after the second
\* update is the one that removes it.
SharedImage ==
    /\ cfg.Cleanup
    /\ Len(list) = 2
    /\ list[1].ImageID = list[2].ImageID
    /\ list[1].ImageID # NoId
BothUpdated == Len(outcomes) = 2 /\ outcomes[1].updated /\ outcomes[2].updated

C34_SharedImageRemovedLast ==
    SharedImage =>
        /\ (Len(outcomes) = 1 /\ outcomes[1].updated) =>
             /\ list[1].ImageID \in images
             /\ ~outcomes[1].cleanup.removed
             /\ outcomes[1].cleanup.reason \in
                  {"old image still in use", "failed to list containers"}
             /\ pc = "inspect" =>
                  /\ ImageRemovals = {}
                  /\ containers[list[2].ID].image = list[1].ImageID
        /\ (BothUpdated /\ AtReturn) =>
             /\ ~outcomes[1].cleanup.removed
             /\ outcomes[2].cleanup.reason # "old image still in use"
             /\ outcomes[2].cleanup.removed <=> list[1].ImageID \notin images
             /\ AllSucceeded =>
                  /\ outcomes[2].cleanup.removed
                  /\ calls[Len(calls)] = Call("imageRemove", 0, list[1].ImageID, NoErr)

C34_Witness ==
    /\ SharedImage /\ BothUpdated /\ sessionDone
    /\ outcomes[1].cleanup.reason = "old image still in use"
    /\ outcomes[2].cleanup.removed
    /\ list[1].ImageID \notin images

\* C35: in the health wait of a replacement that declares a health check, a
\* poll whose inspect carries no health state ends the wait with success and
\* the rolling replace goes on to stop the old container; a poll is followed
\* by another poll only when it read a status that is neither healthy nor
\* unhealthy.
NoStatePolls == {i \in PollIdx : Read(i) = "none"}

C35_NoHealthStateIsSuccess ==
    HealthChecked =>
        /\ \A i \in NoStatePolls :
             /\ calls[i].err = NoErr
             /\ i < Len(calls)
             /\ WaitReturned(i + 1, NoErr)
             /\ \A j \in PollIdx : j <= i
             /\ \A j \in CallIdx : calls[j].op = "forceRemove" => calls[j].id # Replacement
             /\ IF i + 1 = Len(calls) THEN pc = "rollingStop"
                ELSE calls[i + 2].op = "stop" /\ calls[i + 2].id = cur.ID
        /\ \A i, j \in PollIdx : i < j => Read(i) = "starting"
        /\ (pc = "healthSelect" /\ polls > 0) => Read(Len(calls)) = "starting"

C35_Witness ==
    /\ HealthChecked
    /\ \E i \in NoStatePolls : i > 1 /\ (i - 1) \in PollIdx
    /\ AtReturn /\ Last.updated

\* C36: for an image on a registry of its own (ghcr.io/org/app:v1,
\* quay.io/app, localhost/app, localhost:5000/app:v1) and a config.json that
\* stores no credential for that registry but stores one under the Docker Hub
\* legacy key, registryAuthForImageRef returns found = true with the
\* encoding of the Docker Hub credential.
GhcrServers == {a.server : a \in Accounts} \ {LegacyKey}
OwnRegistry == Contains(imageRef, "/") /\ reg # DockerHubHost
LegacyButNotOwn ==
    /\ dockerConfig.readable /\ dockerConfig.json
    /\ LegacyKey \in DOMAIN dockerConfig.Auths
    /\ reg = GhcrHost => DOMAIN dockerConfig.Auths \cap GhcrServers = {}

C36_LegacyKeyForAnyRegistry ==
    (pc = "resolved" /\ OwnRegistry /\ LegacyButNotOwn) =>
        /\ \A k \in DOMAIN auths.entries : ~Contains(k, reg[1])
        /\ regAuth.found
        /\ regAuth.enc = Encode(Stored(LegacyKey))
        /\ Stored(LegacyKey).Username = <<"dave">>

C36_Witness ==
    /\ pc = "resolved"
    /\ imageRef = GhcrHost \o <<"/", "org", "/", "app", ":", "v1">>
    /\ reg = GhcrHost
    /\ DOMAIN dockerConfig.Auths = {LegacyKey, QuayHost}
    /\ regAuth = [enc |-> Encode(Stored(LegacyKey)), found |-> TRUE]
====
